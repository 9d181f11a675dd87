------------------------- MODULE StreamReloadProofs -------------------------
(***************************************************************************)
(* A saved profile that is opened again settles: the page accepts it,      *)
(* saving it once more changes nothing, and its panels show what is sent.  *)
(* For any fields that vary, any lengths and any panels.                   *)
(*                                                                         *)
(* Every stage of the server's normalisation leaves a form of its own, on  *)
(* which it changes nothing (Settled), and no later stage disturbs it.     *)
(***************************************************************************)
EXTENDS StreamEditorProofs

-----------------------------------------------------------------------------
(* A stream the server would not change *)

\* The bytes of an imported packet are kept for plain UDP only, whatever was edited.
Imported(s) == IsOn(s, "bytes") => s.l4 = "UDP" /\ ~Tunnel(s) /\ ~Message(s)

Roomy(s) == s.length >= MinimumWireLength(s) /\ s.min >= MinimumWireLength(s) /\ s.max >= MinimumWireLength(s)

\* A frame of varying length that holds no message.
PlainFrame(s) == SupportsVariableLength(s) /\ ~Message(s)

\* What each stage of the server leaves alone.
LengthSettled(s) ==
  /\ IsOn(s, "bytes") => s.flen = "Fixed" /\ s.min = 64 /\ s.max = Longer(1518, s.length)
  /\ s.flen # "Fixed" => s.min <= 9211 /\ s.max > s.min /\ s.length = s.max

NetworkSettled(s) ==
  /\ s.l3 = "ARP" =>
       s.on \cap {"mpls_enabled", "vxlan_enabled", "gtpu_enabled", "flow_stats_enabled", "latency_enabled"} = {}
  /\ s.l3 = "None" => s.on \cap {"mpls_enabled", "vxlan_enabled", "gtpu_enabled"} = {}

VlanSettled(s) ==
  /\ ~IsOn(s, "vlan_enabled") => ~IsOn(s, "vlan2_enabled") /\ ~Varies(s, VlanModes \cup Vlan2Modes)
  /\ ~IsOn(s, "vlan2_enabled") => ~Varies(s, Vlan2Modes)

MplsSettled(s) ==
  /\ ~IsOn(s, "mpls_enabled") => ~Varies(s, MplsModes \cup Mpls2Modes \cup Mpls3Modes)
  /\ ~IsOn(s, "mpls_label2_enabled") => ~IsOn(s, "mpls_label3_enabled") /\ ~Varies(s, Mpls2Modes \cup Mpls3Modes)
  /\ ~IsOn(s, "mpls_label3_enabled") => ~Varies(s, Mpls3Modes)

GreSettled(s) ==
  IF s.l4 = "GRE"
  THEN /\ s.flen = "Fixed" /\ Roomy(s)
       /\ ~Varies(s, UdpModes \cup {"tcp_checksum"})
       /\ ~Varies(s, OtherVersion(GreInnerVersion(s), GreInner4Modes, GreInner6Modes))
       /\ Varies(s, {"gre_key"}) => IsOn(s, "gre_key_present")
       /\ Varies(s, {"gre_sequence"}) => IsOn(s, "gre_sequence_present")
       /\ Varies(s, GreModes) => s.on \cap {"gre_checksum_present", "gre_checksum_override"} = {}
       /\ GreInnerVersion(s) = "IPv6" => IsOn(s, "gre_type_ipv6")
  ELSE s.gre = "IPv4" /\ ~Varies(s, GreModes)

GtpuSettled(s) ==
  IF HasGtpu(s)
  THEN /\ s.flen = "Fixed" /\ Roomy(s)
       /\ s.on \cap {"udp_length_override", "udp_checksum_override", "dns_enabled", "dhcp_enabled"} = {}
       /\ ~Varies(s, L4PortModes \cup UdpModes \cup DnsModes \cup DhcpModes)
       /\ ~IsOn(s, "gtpu_sequence_enabled") => ~Varies(s, {"gtpu_sequence"})
       /\ ~IsOn(s, "gtpu_npdu_enabled") => ~Varies(s, {"gtpu_npdu"})
       /\ ~IsOn(s, "gtpu_extension_enabled") => ~Varies(s, {"gtpu_extension_udp_port"})
       /\ ~Varies(s, OtherVersion(s.gtpu, GtpuInner4Modes, GtpuInner6Modes))
  ELSE s.gtpu = "IPv4" /\ s.on \cap GtpuFlags = {} /\ ~Varies(s, GtpuModes)

\* GTP-U goes from and to ports of its own.
GtpuPortsSettled(s) == HasGtpu(s) => PortFlags \subseteq s.on

PortsSettled(s) ==
  /\ s.l4 = "None" => ~Varies(s, {"udp_length"})
  /\ ~HasPorts(s) => s.on \cap PortFlags = {} /\ ~Varies(s, L4PortModes)

UdpSettled(s) ==
  /\ s.l4 # "UDP" => s.on \cap UdpFlags = {} /\ ~Varies(s, {"udp_checksum"})
  /\ IsOn(s, "dns_enabled") => HasDns(s) /\ ~IsOn(s, "dhcp_enabled")
  /\ IsOn(s, "dhcp_enabled") => HasDhcp(s)
  /\ ~IsOn(s, "dns_enabled") => ~Varies(s, DnsModes) /\ ~IsOn(s, "dns_answer_enabled")
  /\ ~IsOn(s, "dhcp_enabled") => ~Varies(s, DhcpModes)

DnsSettled(s) ==
  IsOn(s, "dns_enabled") =>
    /\ ~IsOn(s, "udp_length_override") /\ IsOn(s, "payload_enabled") /\ Roomy(s)
    /\ ~IsOn(s, "dns_answer_enabled") => ~Varies(s, DnsAnswerModes)
    /\ Varies(s, DnsModes) => ~IsOn(s, "udp_checksum_override")

DhcpSettled(s) ==
  IsOn(s, "dhcp_enabled") =>
    /\ ~IsOn(s, "udp_length_override") /\ ~Varies(s, {"udp_length"}) /\ Roomy(s)
    /\ IsOn(s, "payload_enabled") /\ PortFlags \subseteq s.on
    /\ ~IsOn(s, "dhcp_option_values") => ~Varies(s, DhcpOptionModes)
    /\ Varies(s, DhcpModes) => ~IsOn(s, "udp_checksum_override")

TcpSettled(s) ==
  IF s.l4 = "TCP"
  THEN /\ ~IsOn(s, "tcp_option_window_scale_enabled") => ~Varies(s, {"tcp_option_window_scale"})
       /\ ~IsOn(s, "tcp_option_sack_blocks_enabled") =>
            ~Varies(s, {"tcp_option_sack_left_edge", "tcp_option_sack_right_edge"})
       /\ ~IsOn(s, "tcp_option_timestamp_enabled") =>
            ~Varies(s, {"tcp_option_timestamp_value", "tcp_option_timestamp_echo"})
  ELSE s.on \cap TcpOptionFlags = {} /\ ~Varies(s, TcpOptionModes)

SctpSettled(s) ==
  IF s.l4 = "SCTP"
  THEN /\ Varies(s, SctpModes \cup L4PortModes) => {"sctp_checksum_override", "sctp_zero"} \subseteq s.on
       /\ Varies(s, SctpModes) => Roomy(s)
  ELSE ~IsOn(s, "sctp_checksum_override") /\ ~Varies(s, SctpModes)

IcmpSettled(s) ==
  /\ s.l4 # "ICMP" => ~IsOn(s, "icmp_checksum_override")
  /\ ~Icmpv6Echo(s) => ~Varies(s, IcmpModes)
  /\ Varies(s, IcmpModes) => ~IsOn(s, "icmp_checksum_override")
  /\ Icmpv6(s) => s.flen = "Fixed" /\ ~Varies(s, Ipv6AddressModes)
  /\ Icmpv6Control(s) => ~Varies(s, {"ipv6_hop_limit"}) /\ Roomy(s)

VxlanSettled(s) ==
  /\ IF IsOn(s, "vxlan_enabled")
     THEN /\ ~Varies(s, L4PortModes \cup {"udp_length"} \cup OtherVersion(s.vxlan, VxlanInner4Modes, VxlanInner6Modes))
          /\ ~IsOn(s, "bytes") => Roomy(s)
     ELSE s.vxlan = "IPv4" /\ ~Varies(s, VxlanModes)
  /\ ~SupportsVariableLength(s) => s.flen = "Fixed"

HeadersSettled(s) ==
  /\ NetworkSettled(s) /\ VlanSettled(s) /\ MplsSettled(s) /\ GreSettled(s) /\ GtpuSettled(s) /\ GtpuPortsSettled(s)
  /\ PortsSettled(s)
MessagesSettled(s) == UdpSettled(s) /\ DnsSettled(s) /\ DhcpSettled(s)
TransportSettled(s) == TcpSettled(s) /\ SctpSettled(s) /\ IcmpSettled(s) /\ VxlanSettled(s)

Settled(s) ==
  s \in Stream /\ OneTunnel(s) /\ LengthSettled(s) /\ HeadersSettled(s) /\ MessagesSettled(s) /\ TransportSettled(s)
-----------------------------------------------------------------------------
(* What a later stage does not undo *)

NewFlags ==
  PortFlags \cup {"payload_enabled", "sctp_checksum_override", "sctp_zero", "gre_key_present", "gre_sequence_present",
                  "gre_type_ipv6"}

\* What stages of the server do to a stream that set or clear no switches but those of X: they turn
\* on the new ones only, no further field varies, and a plain frame keeps its lengths.
After(s, t, X) ==
  /\ t \in Stream /\ t.l3 = s.l3 /\ t.l4 = s.l4 /\ t.icmp = s.icmp
  /\ t.vary \subseteq s.vary /\ t.on \ X = s.on \ X /\ t.on \subseteq s.on \cup NewFlags
  /\ t.gre \in {s.gre, "IPv4"} /\ (s.l4 = "GRE" => t.gre = s.gre)
  /\ t.gtpu \in {s.gtpu, "IPv4"} /\ (HasGtpu(t) => t.gtpu = s.gtpu)
  /\ t.vxlan \in {s.vxlan, "IPv4"} /\ (IsOn(t, "vxlan_enabled") => t.vxlan = s.vxlan)
  /\ s.flen = "Fixed" => t.flen = "Fixed"
  /\ t.length >= s.length /\ t.min >= s.min /\ t.max >= s.max
  /\ PlainFrame(s) => t.length = s.length /\ t.min = s.min /\ t.max = s.max

LEMMA NewFlagsApart ==
  NewFlags \cap (TunnelFlags \cup MessageFlags \cup UdpFlags \cup {"bytes", "vxlan_enabled", "gtpu_enabled"}) = {}
BY DEF NewFlags, PortFlags, TunnelFlags, MessageFlags, UdpFlags

LEMMA AfterSelf ==
  ASSUME NEW s \in Stream, NEW X
  PROVE  After(s, s, X)
BY DEF After, Stream

LEMMA AfterPlain ==
  ASSUME NEW s, NEW t, NEW X, After(s, t, X)
  PROVE  /\ Tunnel(t) => Tunnel(s)
         /\ Message(t) => Message(s)
         /\ HasGtpu(t) => HasGtpu(s)
         /\ PlainFrame(s) => PlainFrame(t)
<1>1. \A f \in {"vxlan_enabled", "gtpu_enabled", "dns_enabled", "dhcp_enabled"} : IsOn(t, f) => IsOn(s, f)
  BY NewFlagsApart DEF After, IsOn, MessageFlags
<1>2. t.l3 = s.l3 /\ t.l4 = s.l4
  BY DEF After
<1>3. (Tunnel(t) => Tunnel(s)) /\ (Message(t) => Message(s)) /\ (HasGtpu(t) => HasGtpu(s))
  BY <1>1, <1>2 DEF Tunnel, Message, HasGtpu
<1> QED BY <1>2, <1>3 DEF PlainFrame, SupportsVariableLength

LEMMA AfterChain ==
  ASSUME NEW s \in Stream, NEW t, NEW u, NEW X, NEW Y, After(s, t, X), After(t, u, Y)
  PROVE  After(s, u, X \cup Y)
<1>1. /\ u \in Stream /\ u.l3 = s.l3 /\ u.l4 = s.l4 /\ u.icmp = s.icmp
      /\ u.vary \subseteq s.vary /\ u.on \subseteq s.on \cup NewFlags
      /\ s.flen = "Fixed" => u.flen = "Fixed"
  BY DEF After
<1>2. u.on \ (X \cup Y) = s.on \ (X \cup Y)
  <2>1. u.on \ Y = t.on \ Y /\ t.on \ X = s.on \ X
    BY DEF After
  <2> QED BY <2>1
<1>3. u.gre \in {s.gre, "IPv4"} /\ (s.l4 = "GRE" => u.gre = s.gre)
  BY DEF After
<1>4. u.gtpu \in {s.gtpu, "IPv4"} /\ (HasGtpu(u) => u.gtpu = s.gtpu)
  <2>1. HasGtpu(u) => HasGtpu(t)
    BY AfterPlain
  <2> QED BY <2>1 DEF After
<1>5. u.vxlan \in {s.vxlan, "IPv4"} /\ (IsOn(u, "vxlan_enabled") => u.vxlan = s.vxlan)
  <2>1. IsOn(u, "vxlan_enabled") => IsOn(t, "vxlan_enabled")
    BY NewFlagsApart DEF After, IsOn
  <2> QED BY <2>1 DEF After
<1>6. u.length >= s.length /\ u.min >= s.min /\ u.max >= s.max
  <2>1. \A x \in {s, t, u} : x.length \in Nat /\ x.min \in Nat /\ x.max \in Nat
    BY DEF After, Stream
  <2>2. /\ t.length >= s.length /\ t.min >= s.min /\ t.max >= s.max
        /\ u.length >= t.length /\ u.min >= t.min /\ u.max >= t.max
    BY DEF After
  <2> QED BY <2>1, <2>2
<1>7. PlainFrame(s) => u.length = s.length /\ u.min = s.min /\ u.max = s.max
  BY AfterPlain DEF After
<1> QED BY <1>1, <1>2, <1>3, <1>4, <1>5, <1>6, <1>7 DEF After

\* A step that keeps the protocols.
LEMMA AfterStep ==
  ASSUME NEW s \in Stream, NEW t, NEW X, After(s, t, X), NEW u, Alike(t, u), u.vary \subseteq t.vary,
         u.on \ X = t.on \ X, u.on \subseteq t.on \cup NewFlags,
         t.flen = "Fixed" => u.flen = "Fixed", u.length >= t.length, u.min >= t.min, u.max >= t.max,
         PlainFrame(s) => u.length = t.length /\ u.min = t.min /\ u.max = t.max
  PROVE  After(s, u, X)
<1>1. /\ u \in Stream /\ u.l3 = s.l3 /\ u.l4 = s.l4 /\ u.icmp = s.icmp
      /\ u.vary \subseteq s.vary /\ u.on \subseteq s.on \cup NewFlags
      /\ s.flen = "Fixed" => u.flen = "Fixed"
      /\ u.gre = t.gre /\ u.gtpu = t.gtpu /\ u.vxlan = t.vxlan
  BY DEF After, Alike
<1>2. u.on \ X = s.on \ X
  BY DEF After
<1>3. IsOn(u, "vxlan_enabled") => IsOn(t, "vxlan_enabled")
  BY NewFlagsApart DEF IsOn
<1>4. HasGtpu(u) => HasGtpu(t)
  <2>1. IsOn(u, "gtpu_enabled") => IsOn(t, "gtpu_enabled")
    BY NewFlagsApart DEF IsOn
  <2> QED BY <1>1, <2>1 DEF HasGtpu, After
<1>5. /\ u.gre \in {s.gre, "IPv4"} /\ (s.l4 = "GRE" => u.gre = s.gre)
      /\ u.gtpu \in {s.gtpu, "IPv4"} /\ (HasGtpu(u) => u.gtpu = s.gtpu)
      /\ u.vxlan \in {s.vxlan, "IPv4"} /\ (IsOn(u, "vxlan_enabled") => u.vxlan = s.vxlan)
  BY <1>1, <1>3, <1>4 DEF After
<1>6. u.length >= s.length /\ u.min >= s.min /\ u.max >= s.max
  <2>1. \A x \in {s, t, u} : x.length \in Nat /\ x.min \in Nat /\ x.max \in Nat
    BY <1>1 DEF After, Stream
  <2>2. t.length >= s.length /\ t.min >= s.min /\ t.max >= s.max
    BY DEF After
  <2> QED BY <2>1, <2>2
<1>7. PlainFrame(s) => u.length = s.length /\ u.min = s.min /\ u.max = s.max
  BY DEF After
<1> QED BY <1>1, <1>2, <1>5, <1>6, <1>7 DEF After

\* The lengths a step leaves.
LEMMA Sizes ==
  ASSUME NEW s \in Stream
  PROVE  /\ \A F : LET t == TurnOn(s, F) IN t.flen = s.flen /\ t.length = s.length /\ t.min = s.min /\ t.max = s.max
         /\ \A F : LET t == TurnOff(s, F) IN t.flen = s.flen /\ t.length = s.length /\ t.min = s.min /\ t.max = s.max
         /\ \A F : LET t == Fix(s, F) IN t.flen = s.flen /\ t.length = s.length /\ t.min = s.min /\ t.max = s.max
         /\ LET t == FixLength(s) IN t.flen = "Fixed" /\ t.length = s.length /\ t.min = s.min /\ t.max = s.max
         /\ LET t == Raised(s)
                n == MinimumWireLength(s)
            IN t.flen = s.flen /\ t.length = Longer(s.length, n) /\ t.min = Longer(s.min, n) /\ t.max = Longer(s.max, n)
<1>1. \A F : LET t == TurnOn(s, F) IN t.flen = s.flen /\ t.length = s.length /\ t.min = s.min /\ t.max = s.max
  BY DEF TurnOn, Stream
<1>2. \A F : LET t == TurnOff(s, F) IN t.flen = s.flen /\ t.length = s.length /\ t.min = s.min /\ t.max = s.max
  BY DEF TurnOff, Stream
<1>3. \A F : LET t == Fix(s, F) IN t.flen = s.flen /\ t.length = s.length /\ t.min = s.min /\ t.max = s.max
  BY DEF Fix, Stream
<1>4. LET t == FixLength(s) IN t.flen = "Fixed" /\ t.length = s.length /\ t.min = s.min /\ t.max = s.max
  BY DEF FixLength, Stream
<1>5. LET t == Raised(s)
          n == MinimumWireLength(s)
      IN t.flen = s.flen /\ t.length = Longer(s.length, n) /\ t.min = Longer(s.min, n) /\ t.max = Longer(s.max, n)
  <2> DEFINE n == MinimumWireLength(s)
             a == AtLeast(s, n)
  <2>1. a \in Stream /\ a.flen = s.flen /\ a.length = Longer(s.length, n) /\ a.min = s.min /\ a.max = s.max
    <3>1. Longer(s.length, n) \in Nat
      BY WireLength DEF Longer, Stream
    <3> QED BY <3>1 DEF AtLeast, Stream
  <2> HIDE DEF a
  <2>2. LET t == [a EXCEPT !.min = Longer(@, n), !.max = Longer(@, n)]
        IN t.flen = s.flen /\ t.length = Longer(s.length, n) /\ t.min = Longer(s.min, n) /\ t.max = Longer(s.max, n)
    BY <2>1 DEF Stream
  <2> QED BY <2>2 DEF Raised, minimumFrameLengthPatch, a
<1> QED BY <1>1, <1>2, <1>3, <1>4, <1>5

LEMMA AfterSteps ==
  ASSUME NEW s \in Stream, NEW t, NEW X, After(s, t, X)
  PROVE  /\ After(s, FixLength(t), X)
         /\ ~PlainFrame(s) => After(s, Raised(t), X)
         /\ \A F : After(s, Fix(t, F), X)
         /\ \A F : F \subseteq X => After(s, TurnOff(t, F), X)
         /\ \A F : F \subseteq X \cap NewFlags \cap Flags => After(s, TurnOn(t, F), X)
         /\ \A F, G : F \subseteq X => After(s, Drop(t, F, G), X)
<1>0. t \in Stream /\ t.length \in Nat /\ t.min \in Nat /\ t.max \in Nat
  BY DEF After, Stream
<1>1. ASSUME NEW u, Alike(t, u), u.vary \subseteq t.vary, u.on \ X = t.on \ X, u.on \subseteq t.on \cup NewFlags,
             t.flen = "Fixed" => u.flen = "Fixed", u.length = t.length, u.min = t.min, u.max = t.max
      PROVE  After(s, u, X)
  BY <1>0, <1>1, AfterStep
<1>2. After(s, FixLength(t), X)
  BY <1>0, <1>1, Written, Sizes
<1>3. ASSUME ~PlainFrame(s) PROVE After(s, Raised(t), X)
  <2>1. MinimumWireLength(t) \in Nat
    BY <1>0, WireLength
  <2>2. Raised(t).length >= t.length /\ Raised(t).min >= t.min /\ Raised(t).max >= t.max /\ Raised(t).flen = t.flen
    BY <1>0, <2>1, Sizes DEF Longer
  <2> QED BY <1>0, <1>3, <2>2, RaisedWrites, AfterStep
<1>4. ASSUME NEW u, After(s, u, X), NEW F PROVE After(s, Fix(u, F), X)
  <2>1. u \in Stream /\ u.length \in Nat /\ u.min \in Nat /\ u.max \in Nat
    BY <1>4 DEF After, Stream
  <2>2. /\ Alike(u, Fix(u, F)) /\ Fix(u, F).on = u.on /\ Fix(u, F).vary \subseteq u.vary
        /\ Fix(u, F).flen = u.flen /\ Fix(u, F).length = u.length /\ Fix(u, F).min = u.min /\ Fix(u, F).max = u.max
    BY <2>1, Written, Sizes
  <2> QED BY <1>4, <2>1, <2>2, AfterStep
<1>5. ASSUME NEW F, F \subseteq X PROVE After(s, TurnOff(t, F), X)
  BY <1>0, <1>1, <1>5, Written, Sizes
<1>6. ASSUME NEW F, F \subseteq X \cap NewFlags \cap Flags PROVE After(s, TurnOn(t, F), X)
  BY <1>0, <1>1, <1>6, Written, Sizes
<1>7. ASSUME NEW F, NEW G, F \subseteq X PROVE After(s, Drop(t, F, G), X)
  BY <1>4, <1>5, <1>7 DEF Drop
<1> QED BY <1>2, <1>3, <1>4, <1>5, <1>6, <1>7
NetworkSwitches == {"mpls_enabled", "vxlan_enabled", "gtpu_enabled", "flow_stats_enabled", "latency_enabled"}
GreSwitches == {"gre_checksum_present", "gre_checksum_override", "gre_key_present", "gre_sequence_present", "gre_type_ipv6"}
GtpuSwitches == PortFlags \cup UdpFlags \cup MessageFlags \cup GtpuFlags
UdpSwitches == UdpFlags \cup MessageFlags \cup {"dns_answer_enabled"}
DnsSwitches == UdpFlags \cup {"payload_enabled"}
DhcpSwitches == DnsSwitches \cup PortFlags
SctpSwitches == {"sctp_checksum_override", "sctp_zero"}

LEMMA AfterVersions ==
  ASSUME NEW s \in Stream, NEW X
  PROVE  /\ s.l4 # "GRE" => After(s, [s EXCEPT !.gre = "IPv4"], X)
         /\ ~HasGtpu(s) => After(s, [s EXCEPT !.gtpu = "IPv4"], X)
         /\ ~IsOn(s, "vxlan_enabled") => After(s, [s EXCEPT !.vxlan = "IPv4"], X)
<1>0. "IPv4" \in Versions /\ s.length \in Nat /\ s.min \in Nat /\ s.max \in Nat
  BY DEF Versions, Stream
<1>1. ASSUME s.l4 # "GRE" PROVE After(s, [s EXCEPT !.gre = "IPv4"], X)
  <2> DEFINE t == [s EXCEPT !.gre = "IPv4"]
  <2>1. /\ t \in Stream /\ t.l3 = s.l3 /\ t.l4 = s.l4 /\ t.icmp = s.icmp /\ t.gre = "IPv4" /\ t.gtpu = s.gtpu /\ t.vxlan = s.vxlan
        /\ t.on = s.on /\ t.vary = s.vary /\ t.flen = s.flen /\ t.length = s.length /\ t.min = s.min /\ t.max = s.max
    BY <1>0 DEF Stream
  <2> HIDE DEF t
  <2>2. After(s, t, X)
    BY <1>0, <1>1, <2>1 DEF After
  <2> QED BY <2>2 DEF t
<1>2. ASSUME ~HasGtpu(s) PROVE After(s, [s EXCEPT !.gtpu = "IPv4"], X)
  <2> DEFINE t == [s EXCEPT !.gtpu = "IPv4"]
  <2>1. /\ t \in Stream /\ t.l3 = s.l3 /\ t.l4 = s.l4 /\ t.icmp = s.icmp /\ t.gre = s.gre /\ t.gtpu = "IPv4" /\ t.vxlan = s.vxlan
        /\ t.on = s.on /\ t.vary = s.vary /\ t.flen = s.flen /\ t.length = s.length /\ t.min = s.min /\ t.max = s.max
    BY <1>0 DEF Stream
  <2> HIDE DEF t
  <2>2. ~HasGtpu(t)
    BY <1>2, <2>1 DEF HasGtpu, IsOn
  <2>3. After(s, t, X)
    BY <1>0, <2>1, <2>2 DEF After
  <2> QED BY <2>3 DEF t
<1>3. ASSUME ~IsOn(s, "vxlan_enabled") PROVE After(s, [s EXCEPT !.vxlan = "IPv4"], X)
  <2> DEFINE t == [s EXCEPT !.vxlan = "IPv4"]
  <2>1. /\ t \in Stream /\ t.l3 = s.l3 /\ t.l4 = s.l4 /\ t.icmp = s.icmp /\ t.gre = s.gre /\ t.gtpu = s.gtpu /\ t.vxlan = "IPv4"
        /\ t.on = s.on /\ t.vary = s.vary /\ t.flen = s.flen /\ t.length = s.length /\ t.min = s.min /\ t.max = s.max
    BY <1>0 DEF Stream
  <2> HIDE DEF t
  <2>2. ~IsOn(t, "vxlan_enabled")
    BY <1>3, <2>1 DEF IsOn
  <2>3. After(s, t, X)
    BY <1>0, <2>1, <2>2 DEF After
  <2> QED BY <2>3 DEF t
<1> QED BY <1>1, <1>2, <1>3

LEMMA AfterLink ==
  ASSUME NEW s \in Stream
  PROVE  /\ After(s, NormNetwork(s), NetworkSwitches)
         /\ After(s, NormVlan(s), {"vlan2_enabled"})
         /\ After(s, NormMpls(s), {"mpls_label3_enabled"})
<1>1. After(s, NormNetwork(s), NetworkSwitches)
  BY AfterSelf, AfterSteps DEF NormNetwork, NetworkSwitches
<1>2. After(s, NormVlan(s), {"vlan2_enabled"})
  BY AfterSelf, AfterSteps DEF NormVlan
<1>3. After(s, NormMpls(s), {"mpls_label3_enabled"})
  BY AfterSelf, AfterSteps DEF NormMpls
<1> QED BY <1>1, <1>2, <1>3

LEMMA AfterTunnels ==
  ASSUME NEW s \in Stream
  PROVE  /\ After(s, NormGre(s), GreSwitches)
         /\ After(s, NormGtpu(s), GtpuSwitches)
         /\ After(s, NormVxlan(s), {})
<1>1. After(s, NormGre(s), GreSwitches)
  <2> DEFINE udp == Fix(FixLength(s), UdpModes \cup {"tcp_checksum"})
             inner == Fix(udp, OtherVersion(GreInnerVersion(s), GreInner4Modes, GreInner6Modes))
             O == (IF Varies(s, {"gre_key"}) THEN {"gre_key_present"} ELSE {})
                    \cup (IF Varies(s, {"gre_sequence"}) THEN {"gre_sequence_present"} ELSE {})
             options == TurnOn(inner, O)
             gre == IF Varies(options, GreModes) THEN TurnOff(options, {"gre_checksum_present", "gre_checksum_override"})
                    ELSE options
             all == IF GreInnerVersion(s) = "IPv6" THEN TurnOn(gre, {"gre_type_ipv6"}) ELSE gre
  <2>1. After(s, inner, GreSwitches)
    BY AfterSelf, AfterSteps
  <2>2. O \subseteq GreSwitches \cap NewFlags \cap Flags /\ {"gre_type_ipv6"} \subseteq GreSwitches \cap NewFlags \cap Flags
        /\ {"gre_checksum_present", "gre_checksum_override"} \subseteq GreSwitches
    BY DEF GreSwitches, NewFlags, Flags, GreFlags
  <2> HIDE DEF inner, O
  <2>3. After(s, options, GreSwitches)
    BY <2>1, <2>2, AfterSteps
  <2> HIDE DEF options
  <2>4. After(s, gre, GreSwitches)
    BY <2>2, <2>3, AfterSteps
  <2> HIDE DEF gre
  <2>5. After(s, all, GreSwitches)
    BY <2>2, <2>4, AfterSteps
  <2>6. NormGre(s) = IF s.l4 = "GRE" THEN Raised(all) ELSE Fix([s EXCEPT !.gre = "IPv4"], GreModes)
    BY DEF NormGre, all, gre, options, inner, O
  <2> HIDE DEF all
  <2>7. CASE s.l4 = "GRE"
    <3>1. ~PlainFrame(s)
      BY <2>7 DEF PlainFrame, SupportsVariableLength
    <3> QED BY <2>5, <2>6, <2>7, <3>1, AfterSteps
  <2>8. CASE s.l4 # "GRE"
    <3>1. After(s, [s EXCEPT !.gre = "IPv4"], GreSwitches)
      BY <2>8, AfterVersions
    <3> QED BY <2>6, <2>8, <3>1, AfterSteps
  <2> QED BY <2>7, <2>8
<1>2. After(s, NormGtpu(s), GtpuSwitches)
  <2> DEFINE ports == TurnOn(Fix(FixLength(s), L4PortModes), {"l4_src_port_override", "l4_dst_port_override"})
             plain == Drop(ports, {"udp_length_override", "udp_checksum_override", "dns_enabled", "dhcp_enabled"},
                           UdpModes \cup DnsModes \cup DhcpModes)
             options == Fix(plain, (IF IsOn(s, "gtpu_sequence_enabled") THEN {} ELSE {"gtpu_sequence"})
                                     \cup (IF IsOn(s, "gtpu_npdu_enabled") THEN {} ELSE {"gtpu_npdu"})
                                     \cup (IF IsOn(s, "gtpu_extension_enabled") THEN {} ELSE {"gtpu_extension_udp_port"}))
  <2>1. /\ {"l4_src_port_override", "l4_dst_port_override"} \subseteq GtpuSwitches \cap NewFlags \cap Flags
        /\ {"udp_length_override", "udp_checksum_override", "dns_enabled", "dhcp_enabled"} \subseteq GtpuSwitches
        /\ GtpuFlags \subseteq GtpuSwitches
    BY DEF GtpuSwitches, NewFlags, Flags, PortFlags, UdpFlags, MessageFlags
  <2>2. After(s, Fix(FixLength(s), L4PortModes), GtpuSwitches)
    BY AfterSelf, AfterSteps
  <2>3. After(s, ports, GtpuSwitches)
    BY <2>1, <2>2, AfterSteps
  <2> HIDE DEF ports
  <2>4. After(s, plain, GtpuSwitches)
    BY <2>1, <2>3, AfterSteps
  <2> HIDE DEF plain
  <2>5. After(s, Fix(options, OtherVersion(s.gtpu, GtpuInner4Modes, GtpuInner6Modes)), GtpuSwitches)
    <3>1. After(s, options, GtpuSwitches)
      BY <2>4, AfterSteps
    <3> QED BY <3>1, AfterSteps
  <2>6. NormGtpu(s) = IF HasGtpu(s) THEN Raised(Fix(options, OtherVersion(s.gtpu, GtpuInner4Modes, GtpuInner6Modes)))
                      ELSE Drop([s EXCEPT !.gtpu = "IPv4"], GtpuFlags, GtpuModes)
    BY DEF NormGtpu, options, plain, ports
  <2> HIDE DEF options
  <2>7. CASE HasGtpu(s)
    <3>1. ~PlainFrame(s)
      BY <2>7 DEF PlainFrame, SupportsVariableLength, HasGtpu, Tunnel
    <3> QED BY <2>5, <2>6, <2>7, <3>1, AfterSteps
  <2>8. CASE ~HasGtpu(s)
    <3>1. After(s, [s EXCEPT !.gtpu = "IPv4"], GtpuSwitches)
      BY <2>8, AfterVersions
    <3> QED BY <2>1, <2>6, <2>8, <3>1, AfterSteps
  <2> QED BY <2>7, <2>8
<1>3. After(s, NormVxlan(s), {})
  <2> DEFINE outer == FixLength(Fix(s, L4PortModes \cup {"udp_length"} \cup OtherVersion(s.vxlan, VxlanInner4Modes, VxlanInner6Modes)))
             vxlan == CASE ~IsOn(s, "vxlan_enabled") -> Fix([s EXCEPT !.vxlan = "IPv4"], VxlanModes)
                        [] IsOn(s, "vxlan_enabled") /\ ~IsOn(s, "bytes") -> Raised(outer)
                        [] OTHER -> outer
  <2>1. After(s, outer, {})
    BY AfterSelf, AfterSteps
  <2>2. NormVxlan(s) \in {vxlan, FixLength(vxlan)}
    BY DEF NormVxlan, outer
  <2> HIDE DEF outer
  <2>3. ~IsOn(s, "vxlan_enabled") => After(s, Fix([s EXCEPT !.vxlan = "IPv4"], VxlanModes), {})
    BY AfterVersions, AfterSteps
  <2>4. IsOn(s, "vxlan_enabled") => After(s, Raised(outer), {})
    <3>1. IsOn(s, "vxlan_enabled") => ~PlainFrame(s)
      BY DEF PlainFrame, SupportsVariableLength, Tunnel
    <3> QED BY <2>1, <3>1, AfterSteps
  <2>5. After(s, vxlan, {})
    BY <2>1, <2>3, <2>4
  <2> HIDE DEF vxlan
  <2> QED BY <2>2, <2>5, AfterSteps
<1> QED BY <1>1, <1>2, <1>3

LEMMA AfterUdp ==
  ASSUME NEW s \in Stream
  PROVE  /\ After(s, NormPorts(s), PortFlags)
         /\ After(s, NormUdp(s), UdpSwitches)
         /\ After(s, NormDns(s), DnsSwitches)
         /\ After(s, NormDhcp(s), DhcpSwitches)
<1>1. After(s, NormPorts(s), PortFlags)
  BY AfterSelf, AfterSteps DEF NormPorts, PortFlags
<1>2. ASSUME NEW t, After(s, t, UdpSwitches)
      PROVE  After(s, NoDns(t), UdpSwitches) /\ After(s, NoDhcp(t), UdpSwitches)
  BY <1>2, AfterSteps DEF NoDns, NoDhcp, UdpSwitches, MessageFlags
<1>3. After(s, NormUdp(s), UdpSwitches)
  <2> DEFINE udp == IF s.l4 = "UDP" THEN s
                    ELSE NoDns(NoDhcp(Drop(s, {"udp_length_override", "udp_checksum_override"}, {"udp_checksum"})))
             dns == IF Tunnel(s) THEN NoDns(udp) ELSE udp
             dhcp == IF IsOn(dns, "dhcp_enabled") /\ HasDhcp(dns) THEN dns ELSE NoDhcp(dns)
  <2>1. After(s, Drop(s, {"udp_length_override", "udp_checksum_override"}, {"udp_checksum"}), UdpSwitches)
    BY AfterSelf, AfterSteps DEF UdpSwitches, UdpFlags
  <2>2. After(s, udp, UdpSwitches)
    BY <1>2, <2>1, AfterSelf
  <2> HIDE DEF udp
  <2>3. After(s, dns, UdpSwitches)
    BY <1>2, <2>2
  <2> HIDE DEF dns
  <2>4. After(s, dhcp, UdpSwitches)
    BY <1>2, <2>3
  <2>5. NormUdp(s) = IF IsOn(dhcp, "dns_enabled") /\ ~IsOn(dhcp, "dhcp_enabled") THEN dhcp
                     ELSE TurnOff(NoDns(dhcp), {"dns_answer_enabled"})
    BY DEF NormUdp, dhcp, dns, udp
  <2> HIDE DEF dhcp
  <2>6. After(s, TurnOff(NoDns(dhcp), {"dns_answer_enabled"}), UdpSwitches)
    BY <1>2, <2>4, AfterSteps DEF UdpSwitches
  <2> QED BY <2>4, <2>5, <2>6
<1>4. {"udp_checksum_override"} \subseteq DnsSwitches /\ {"udp_length_override"} \subseteq DnsSwitches
      /\ DnsSwitches \subseteq DhcpSwitches /\ {"payload_enabled"} \subseteq DnsSwitches \cap NewFlags \cap Flags
      /\ {"payload_enabled", "l4_src_port_override", "l4_dst_port_override"} \subseteq DhcpSwitches \cap NewFlags \cap Flags
  BY DEF DnsSwitches, DhcpSwitches, UdpFlags, NewFlags, PortFlags, Flags
<1>5. ASSUME NEW X, DnsSwitches \subseteq X, NEW t, After(s, t, X), NEW F, ~PlainFrame(s) PROVE After(s, Unchecked(Raised(t), F), X)
  <2>1. After(s, Raised(t), X)
    BY <1>5, AfterSteps
  <2> QED BY <1>4, <1>5, <2>1, AfterSteps DEF Unchecked
<1>6. After(s, NormDns(s), DnsSwitches)
  <2> DEFINE dns == TurnOn(TurnOff(s, {"udp_length_override"}), {"payload_enabled"})
             answer == IF IsOn(s, "dns_answer_enabled") THEN dns ELSE Fix(dns, DnsAnswerModes)
  <2>1. After(s, TurnOff(s, {"udp_length_override"}), DnsSwitches)
    BY <1>4, AfterSelf, AfterSteps
  <2>2. After(s, dns, DnsSwitches)
    BY <1>4, <2>1, AfterSteps
  <2> HIDE DEF dns
  <2>3. After(s, answer, DnsSwitches)
    BY <2>2, AfterSteps
  <2>4. NormDns(s) = IF IsOn(s, "dns_enabled") THEN Unchecked(Raised(answer), DnsModes) ELSE s
    BY DEF NormDns, answer, dns
  <2> HIDE DEF answer
  <2>5. IsOn(s, "dns_enabled") => ~PlainFrame(s)
    BY DEF PlainFrame, Message
  <2> QED BY <1>5, <2>3, <2>4, <2>5, AfterSelf
<1>7. After(s, NormDhcp(s), DhcpSwitches)
  <2> DEFINE off == Drop(s, {"udp_length_override"}, {"udp_length"})
             dhcp == TurnOn(off, {"payload_enabled", "l4_src_port_override", "l4_dst_port_override"})
             options == IF IsOn(s, "dhcp_option_values") THEN dhcp ELSE Fix(dhcp, DhcpOptionModes)
  <2>1. After(s, off, DhcpSwitches)
    BY <1>4, AfterSelf, AfterSteps
  <2> HIDE DEF off
  <2>2. After(s, dhcp, DhcpSwitches)
    BY <1>4, <2>1, AfterSteps
  <2> HIDE DEF dhcp
  <2>3. After(s, options, DhcpSwitches)
    BY <2>2, AfterSteps
  <2>4. NormDhcp(s) = IF IsOn(s, "dhcp_enabled") THEN Unchecked(Raised(options), DhcpModes) ELSE s
    BY DEF NormDhcp, options, dhcp, off
  <2> HIDE DEF options
  <2>5. IsOn(s, "dhcp_enabled") => ~PlainFrame(s)
    BY DEF PlainFrame, Message
  <2> QED BY <1>4, <1>5, <2>3, <2>4, <2>5, AfterSelf
<1> QED BY <1>1, <1>3, <1>6, <1>7

LEMMA AfterTransport ==
  ASSUME NEW s \in Stream
  PROVE  /\ After(s, NormTcp(s), TcpOptionFlags)
         /\ After(s, NormSctp(s), SctpSwitches)
         /\ After(s, NormIcmp(s), {"icmp_checksum_override"})
<1>1. After(s, NormTcp(s), TcpOptionFlags)
  <2>1. \A t, f, F : After(s, t, TcpOptionFlags) => After(s, Without(t, f, F), TcpOptionFlags)
    BY AfterSteps DEF Without
  <2> QED BY <2>1, AfterSelf, AfterSteps DEF NormTcp
<1>2. After(s, NormSctp(s), SctpSwitches)
  <2> DEFINE zero == TurnOn(s, {"sctp_checksum_override", "sctp_zero"})
  <2>1. {"sctp_checksum_override", "sctp_zero"} \subseteq SctpSwitches \cap NewFlags \cap Flags
    BY DEF SctpSwitches, NewFlags, Flags
  <2>2. After(s, zero, SctpSwitches) /\ After(s, Drop(s, {"sctp_checksum_override"}, SctpModes), SctpSwitches)
    BY <2>1, AfterSelf, AfterSteps
  <2>3. s.l4 = "SCTP" => ~PlainFrame(s)
    BY DEF PlainFrame, SupportsVariableLength
  <2>4. s.l4 = "SCTP" => After(s, Raised(zero), SctpSwitches)
    BY <2>2, <2>3, AfterSteps
  <2> HIDE DEF zero
  <2> QED BY <2>2, <2>4, AfterSelf DEF NormSctp, zero
<1>3. After(s, NormIcmp(s), {"icmp_checksum_override"})
  <2> DEFINE X == {"icmp_checksum_override"}
             icmp == IF s.l4 = "ICMP" THEN s ELSE TurnOff(s, {"icmp_checksum_override"})
             echo == IF Icmpv6Echo(s) THEN icmp ELSE Fix(icmp, IcmpModes)
             checked == IF Varies(echo, IcmpModes) THEN TurnOff(echo, {"icmp_checksum_override"}) ELSE echo
             fixed == FixLength(Fix(checked, Ipv6AddressModes))
  <2>1. After(s, icmp, X)
    BY AfterSelf, AfterSteps
  <2> HIDE DEF icmp
  <2>2. After(s, echo, X)
    BY <2>1, AfterSteps
  <2> HIDE DEF echo
  <2>3. After(s, checked, X)
    BY <2>2, AfterSteps
  <2> HIDE DEF checked
  <2>4. After(s, fixed, X) /\ After(s, Fix(fixed, {"ipv6_hop_limit"}), X)
    BY <2>3, AfterSteps
  <2>5. NormIcmp(s) \in {checked, fixed} \/ (Icmpv6(s) /\ NormIcmp(s) = Raised(Fix(fixed, {"ipv6_hop_limit"})))
    BY DEF NormIcmp, fixed, checked, echo, icmp
  <2> HIDE DEF fixed
  <2>6. Icmpv6(s) => ~PlainFrame(s)
    BY DEF Icmpv6, PlainFrame, SupportsVariableLength
  <2> QED BY <2>3, <2>4, <2>5, <2>6, AfterSteps
<1> QED BY <1>1, <1>2, <1>3
-----------------------------------------------------------------------------
(* Frames that stay long enough *)

\* What the server raises each kind of packet to.
LEMMA WireKinds ==
  ASSUME NEW s, Tunnel(s) => s.l4 = "UDP"
  PROVE  /\ HasDhcp(s) => MinimumWireLength(s) = Longer(64, Frame(s) + IpHeader(s.l3) + 8 + DhcpBody)
         /\ HasDns(s) /\ ~HasDhcp(s) => MinimumWireLength(s) = Longer(64, Frame(s) + IpHeader(s.l3) + 8 + DnsBody(s))
         /\ Icmpv6Control(s) => MinimumWireLength(s) = Longer(64, Frame(s) + 40 + Icmpv6Body(s))
         /\ s.l4 = "GRE" =>
              MinimumWireLength(s)
                = Longer(64, Frame(s) + IpHeader(s.l3) + GreHeader(s) + IpHeader(GreInnerVersion(s)) + 8)
         /\ s.l4 = "SCTP" => MinimumWireLength(s) = Longer(64, Frame(s) + IpHeader(s.l3) + 28)
         /\ HasGtpu(s) => MinimumWireLength(s) = Longer(64, Frame(s) + 20 + 8 + GtpuHeader(s) + IpHeader(s.gtpu) + 8)
         /\ IsOn(s, "vxlan_enabled") /\ ~HasGtpu(s) =>
              MinimumWireLength(s) = Longer(64, Frame(s) + 20 + 8 + 8 + 14 + IpHeader(s.vxlan) + 8)
         /\ ~HasDhcp(s) /\ ~HasDns(s) /\ ~Icmpv6Control(s) /\ s.l4 \notin {"GRE", "SCTP"} /\ ~HasGtpu(s)
              /\ ~IsOn(s, "vxlan_enabled") => MinimumWireLength(s) = Longer(64, 64)
<1>1. /\ HasDhcp(s) => s.l4 = "UDP" /\ ~HasGtpu(s) /\ ~IsOn(s, "vxlan_enabled")
      /\ HasDns(s) => s.l4 = "UDP" /\ ~HasGtpu(s) /\ ~IsOn(s, "vxlan_enabled")
      /\ HasGtpu(s) => s.l4 = "UDP"
      /\ IsOn(s, "vxlan_enabled") => s.l4 = "UDP"
      /\ Icmpv6Control(s) => s.l4 = "ICMP"
  BY DEF HasDhcp, HasDns, HasGtpu, Tunnel, Icmpv6Control, Icmpv6
<1>2. HasDhcp(s) => MinimumWireLength(s) = Longer(64, Frame(s) + IpHeader(s.l3) + 8 + DhcpBody)
  BY <1>1 DEF MinimumWireLength
<1>3. HasDns(s) /\ ~HasDhcp(s) => MinimumWireLength(s) = Longer(64, Frame(s) + IpHeader(s.l3) + 8 + DnsBody(s))
  BY <1>1 DEF MinimumWireLength
<1>4. Icmpv6Control(s) => MinimumWireLength(s) = Longer(64, Frame(s) + 40 + Icmpv6Body(s))
  BY <1>1 DEF MinimumWireLength
<1>5. s.l4 = "GRE" =>
        MinimumWireLength(s) = Longer(64, Frame(s) + IpHeader(s.l3) + GreHeader(s) + IpHeader(GreInnerVersion(s)) + 8)
  BY <1>1 DEF MinimumWireLength
<1>6. s.l4 = "SCTP" => MinimumWireLength(s) = Longer(64, Frame(s) + IpHeader(s.l3) + 28)
  BY <1>1 DEF MinimumWireLength
<1>7. HasGtpu(s) => MinimumWireLength(s) = Longer(64, Frame(s) + 20 + 8 + GtpuHeader(s) + IpHeader(s.gtpu) + 8)
  BY <1>1 DEF MinimumWireLength
<1>8. IsOn(s, "vxlan_enabled") /\ ~HasGtpu(s) =>
        MinimumWireLength(s) = Longer(64, Frame(s) + 20 + 8 + 8 + 14 + IpHeader(s.vxlan) + 8)
  BY <1>1 DEF MinimumWireLength
<1>9. ~HasDhcp(s) /\ ~HasDns(s) /\ ~Icmpv6Control(s) /\ s.l4 \notin {"GRE", "SCTP"} /\ ~HasGtpu(s)
        /\ ~IsOn(s, "vxlan_enabled") => MinimumWireLength(s) = Longer(64, 64)
  BY <1>1 DEF MinimumWireLength
<1> QED BY <1>2, <1>3, <1>4, <1>5, <1>6, <1>7, <1>8, <1>9

\* The same kind of packet with lighter headers asks for no longer frame.
LEMMA LighterKind ==
  ASSUME NEW s, NEW t, Lighter(s, t), Tunnel(s) => s.l4 = "UDP",
         HasDhcp(t) = HasDhcp(s), HasDns(t) = HasDns(s), Tunnel(t) = Tunnel(s),
         IsOn(t, "vxlan_enabled") = IsOn(s, "vxlan_enabled"), HasGtpu(t) = HasGtpu(s)
  PROVE  MinimumWireLength(t) <= MinimumWireLength(s)
<1>1. /\ Frame(t) \in Nat /\ Frame(s) \in Nat /\ Frame(t) <= Frame(s)
      /\ GreHeader(t) \in Nat /\ GreHeader(s) \in Nat /\ GreHeader(t) <= GreHeader(s)
  BY NaturalLengths, GreWords, LighterFrame, LighterGre
<1>2. /\ GtpuHeader(t) \in Nat /\ GtpuHeader(s) \in Nat /\ GtpuHeader(t) <= GtpuHeader(s)
      /\ \A v : IpHeader(v) \in Nat
      /\ IpHeader(t.gtpu) <= IpHeader(s.gtpu) /\ IpHeader(t.vxlan) <= IpHeader(s.vxlan)
      /\ IpHeader(GreInnerVersion(t)) <= IpHeader(GreInnerVersion(s))
  BY LighterHeaders DEF GtpuHeader, IpHeader
<1>3. t.l3 = s.l3 /\ t.l4 = s.l4 /\ t.icmp = s.icmp /\ Icmpv6Control(t) = Icmpv6Control(s)
  BY DEF Lighter, Icmpv6Control, Icmpv6
<1>4. Tunnel(t) => t.l4 = "UDP"
  BY <1>3
<1>5. \A m, n \in Nat : m <= n => Longer(64, m) <= Longer(64, n)
  BY DEF Longer
<1>6. CASE HasDhcp(s)
  <2>1. DhcpBody \in Nat
    BY DEF DhcpBody
  <2> DEFINE m == Frame(t) + IpHeader(t.l3) + 8 + DhcpBody
             n == Frame(s) + IpHeader(s.l3) + 8 + DhcpBody
  <2>2. MinimumWireLength(t) = Longer(64, m) /\ MinimumWireLength(s) = Longer(64, n)
    BY <1>3, <1>4, <1>6, WireKinds
  <2>3. m \in Nat /\ n \in Nat /\ m <= n
    BY <1>1, <1>2, <1>3, <2>1
  <2> HIDE DEF m, n
  <2> QED BY <1>5, <2>2, <2>3
<1>7. CASE HasDns(s) /\ ~HasDhcp(s)
  <2>1. DnsBody(t) \in Nat /\ DnsBody(s) \in Nat /\ DnsBody(t) <= DnsBody(s)
    BY DEF DnsBody, Lighter, Weights, IsOn
  <2> DEFINE m == Frame(t) + IpHeader(t.l3) + 8 + DnsBody(t)
             n == Frame(s) + IpHeader(s.l3) + 8 + DnsBody(s)
  <2>2. MinimumWireLength(t) = Longer(64, m) /\ MinimumWireLength(s) = Longer(64, n)
    BY <1>3, <1>4, <1>7, WireKinds
  <2>3. m \in Nat /\ n \in Nat /\ m <= n
    BY <1>1, <1>2, <1>3, <2>1
  <2> HIDE DEF m, n
  <2> QED BY <1>5, <2>2, <2>3
<1>8. CASE Icmpv6Control(s)
  <2>1. s.icmp \in {"rs", "ra", "nd"}
    BY <1>8 DEF Icmpv6Control, IcmpControl
  <2>2. \A f \in Icmpv6Flags : IsOn(t, f) => IsOn(s, f)
    BY DEF Lighter, Weights, IsOn
  <2>3. Icmpv6Body(t) \in Nat /\ Icmpv6Body(s) \in Nat /\ Icmpv6Body(t) <= Icmpv6Body(s)
    BY <1>3, <2>1, <2>2 DEF Icmpv6Body, Icmpv6Flags
  <2> DEFINE m == Frame(t) + 40 + Icmpv6Body(t)
             n == Frame(s) + 40 + Icmpv6Body(s)
  <2>4. MinimumWireLength(t) = Longer(64, m) /\ MinimumWireLength(s) = Longer(64, n)
    BY <1>3, <1>4, <1>8, WireKinds
  <2>5. m \in Nat /\ n \in Nat /\ m <= n
    BY <1>1, <1>2, <1>3, <2>1, <2>2, <2>3
  <2> HIDE DEF m, n
  <2> QED BY <1>5, <2>4, <2>5
<1>9. CASE s.l4 = "GRE"
  <2> DEFINE m == Frame(t) + IpHeader(t.l3) + GreHeader(t) + IpHeader(GreInnerVersion(t)) + 8
             n == Frame(s) + IpHeader(s.l3) + GreHeader(s) + IpHeader(GreInnerVersion(s)) + 8
  <2>1. MinimumWireLength(t) = Longer(64, m) /\ MinimumWireLength(s) = Longer(64, n)
    BY <1>3, <1>4, <1>9, WireKinds
  <2>2. m \in Nat /\ n \in Nat /\ m <= n
    BY <1>1, <1>2, <1>3
  <2> HIDE DEF m, n
  <2> QED BY <1>5, <2>1, <2>2
<1>10. CASE s.l4 = "SCTP"
  <2> DEFINE m == Frame(t) + IpHeader(t.l3) + 28
             n == Frame(s) + IpHeader(s.l3) + 28
  <2>1. MinimumWireLength(t) = Longer(64, m) /\ MinimumWireLength(s) = Longer(64, n)
    BY <1>3, <1>4, <1>10, WireKinds
  <2>2. m \in Nat /\ n \in Nat /\ m <= n
    BY <1>1, <1>2, <1>3
  <2> HIDE DEF m, n
  <2> QED BY <1>5, <2>1, <2>2
<1>11. CASE HasGtpu(s)
  <2> DEFINE m == Frame(t) + 20 + 8 + GtpuHeader(t) + IpHeader(t.gtpu) + 8
             n == Frame(s) + 20 + 8 + GtpuHeader(s) + IpHeader(s.gtpu) + 8
  <2>1. MinimumWireLength(t) = Longer(64, m) /\ MinimumWireLength(s) = Longer(64, n)
    BY <1>3, <1>4, <1>11, WireKinds
  <2>2. m \in Nat /\ n \in Nat /\ m <= n
    BY <1>1, <1>2, <1>3
  <2> HIDE DEF m, n
  <2> QED BY <1>5, <2>1, <2>2
<1>12. CASE IsOn(s, "vxlan_enabled") /\ ~HasGtpu(s)
  <2> DEFINE m == Frame(t) + 20 + 8 + 8 + 14 + IpHeader(t.vxlan) + 8
             n == Frame(s) + 20 + 8 + 8 + 14 + IpHeader(s.vxlan) + 8
  <2>1. MinimumWireLength(t) = Longer(64, m) /\ MinimumWireLength(s) = Longer(64, n)
    BY <1>3, <1>4, <1>12, WireKinds
  <2>2. m \in Nat /\ n \in Nat /\ m <= n
    BY <1>1, <1>2, <1>3
  <2> HIDE DEF m, n
  <2> QED BY <1>5, <2>1, <2>2
<1>13. CASE ~HasDhcp(s) /\ ~HasDns(s) /\ ~Icmpv6Control(s) /\ s.l4 \notin {"GRE", "SCTP"} /\ ~HasGtpu(s)
              /\ ~IsOn(s, "vxlan_enabled")
  BY <1>3, <1>4, <1>13, WireKinds DEF Longer
<1> QED BY <1>6, <1>7, <1>8, <1>9, <1>10, <1>11, <1>12, <1>13

\* Switches that make a GRE header longer, or another packet.
LongSwitches == {"gre_key_present", "gre_sequence_present", "gre_type_ipv6"} \cup TunnelFlags

LEMMA AfterLighter ==
  ASSUME NEW s \in Stream, NEW t, NEW X, After(s, t, X), X \cap LongSwitches = {}
  PROVE  Lighter(s, t)
<1>1. t.on \cap Weights \subseteq s.on
  <2>1. NewFlags \cap Weights \subseteq LongSwitches
    BY DEF NewFlags, PortFlags, Weights, LongSwitches, GtpuFlags, Icmpv6Flags
  <2>2. t.on \subseteq s.on \cup NewFlags /\ t.on \ X = s.on \ X
    BY DEF After
  <2> QED BY <2>1, <2>2
<1>2. GreInnerVersion(t) = "IPv6" => GreInnerVersion(s) = "IPv6"
  <2>1. IsOn(t, "gre_type_ipv6") => IsOn(s, "gre_type_ipv6")
    BY DEF After, IsOn, LongSwitches
  <2>2. t.gre \in {s.gre, "IPv4"}
    BY DEF After
  <2> QED BY <2>1, <2>2 DEF GreInnerVersion
<1> QED BY <1>1, <1>2 DEF Lighter, After

LEMMA RoomyAfter ==
  ASSUME NEW s \in Stream, OneTunnel(s), Roomy(s), NEW t, NEW X, After(s, t, X), X \cap LongSwitches = {},
         X \cap MessageFlags = {} \/ s.l4 # "UDP" \/ Tunnel(s)
  PROVE  Roomy(t)
<1>1. Lighter(s, t)
  BY AfterLighter
<1>2. /\ t \in Stream /\ t.l3 = s.l3 /\ t.l4 = s.l4
      /\ IsOn(t, "vxlan_enabled") = IsOn(s, "vxlan_enabled") /\ IsOn(t, "gtpu_enabled") = IsOn(s, "gtpu_enabled")
  BY DEF After, IsOn, LongSwitches, TunnelFlags
<1>3. Tunnel(t) = Tunnel(s) /\ HasGtpu(t) = HasGtpu(s)
  BY <1>2 DEF Tunnel, HasGtpu
<1>4. HasDns(t) = HasDns(s) /\ HasDhcp(t) = HasDhcp(s)
  <2>1. CASE X \cap MessageFlags = {}
    <3>1. IsOn(t, "dns_enabled") = IsOn(s, "dns_enabled") /\ IsOn(t, "dhcp_enabled") = IsOn(s, "dhcp_enabled")
      BY <2>1 DEF After, IsOn, MessageFlags
    <3> QED BY <1>2, <1>3, <3>1 DEF HasDns, HasDhcp
  <2>2. CASE s.l4 # "UDP" \/ Tunnel(s)
    BY <1>2, <1>3, <2>2 DEF HasDns, HasDhcp
  <2> QED BY <2>1, <2>2
<1>5. MinimumWireLength(t) <= MinimumWireLength(s)
  BY <1>1, <1>2, <1>3, <1>4, LighterKind DEF OneTunnel
<1>6. /\ t.length >= s.length /\ t.min >= s.min /\ t.max >= s.max
      /\ s.length \in Nat /\ s.min \in Nat /\ s.max \in Nat /\ t.length \in Nat /\ t.min \in Nat /\ t.max \in Nat
  BY <1>2 DEF After, Stream
<1>7. s.length >= MinimumWireLength(s) /\ s.min >= MinimumWireLength(s) /\ s.max >= MinimumWireLength(s)
  BY DEF Roomy
<1>8. MinimumWireLength(s) \in Nat /\ MinimumWireLength(t) \in Nat
  BY WireLength
<1> QED BY <1>5, <1>6, <1>7, <1>8 DEF Roomy

\* What is raised is long enough, and a step that makes no header longer keeps it so.
LEMMA RaisedRoomy ==
  ASSUME NEW s \in Stream
  PROVE  Roomy(Raised(s))
<1> DEFINE t == Raised(s)
           n == MinimumWireLength(s)
<1>1. Alike(s, t) /\ t.on = s.on /\ t.length = Longer(s.length, n) /\ t.min = Longer(s.min, n) /\ t.max = Longer(s.max, n)
  BY RaisedWrites, Sizes
<1>2. s.length \in Nat /\ s.min \in Nat /\ s.max \in Nat /\ n \in Nat
  BY WireLength DEF Stream
<1> HIDE DEF t
<1>3. MinimumWireLength(t) = n
  <2>1. /\ t.l3 = s.l3 /\ t.l4 = s.l4 /\ t.icmp = s.icmp /\ t.gre = s.gre /\ t.gtpu = s.gtpu /\ t.vxlan = s.vxlan
    BY <1>1 DEF Alike
  <2>2. \A f : IsOn(t, f) = IsOn(s, f)
    BY <1>1 DEF IsOn
  <2>3. Tunnel(t) = Tunnel(s) /\ GreInnerVersion(t) = GreInnerVersion(s)
    BY <2>1, <2>2 DEF Tunnel, GreInnerVersion
  <2>4. HasDns(t) = HasDns(s) /\ HasDhcp(t) = HasDhcp(s) /\ HasGtpu(t) = HasGtpu(s) /\ Icmpv6Control(t) = Icmpv6Control(s)
    BY <2>1, <2>2, <2>3 DEF HasDns, HasDhcp, HasGtpu, Icmpv6Control, Icmpv6
  <2>5. VlanHeader(t) = VlanHeader(s) /\ MplsCount(t) = MplsCount(s)
    BY <2>2 DEF VlanHeader, MplsCount
  <2>6. Frame(t) = Frame(s)
    BY <2>5 DEF Frame
  <2>7. GreHeader(t) = GreHeader(s) /\ GtpuHeader(t) = GtpuHeader(s) /\ DnsBody(t) = DnsBody(s)
    <3>1. GreHeader(t) = GreHeader(s)
      BY <1>1 DEF GreHeader
    <3>2. GtpuHeader(t) = GtpuHeader(s)
      BY <1>1, <2>2 DEF GtpuHeader
    <3>3. DnsBody(t) = DnsBody(s)
      BY <2>2 DEF DnsBody
    <3> QED BY <3>1, <3>2, <3>3
  <2>8. Icmpv6Body(t) = Icmpv6Body(s)
    BY <2>1, <2>2 DEF Icmpv6Body
  <2> QED BY <2>1, <2>2, <2>3, <2>4, <2>6, <2>7, <2>8 DEF MinimumWireLength
<1>4. Roomy(t)
  BY <1>1, <1>2, <1>3 DEF Roomy, Longer
<1> QED BY <1>4 DEF t
-----------------------------------------------------------------------------
(* What is settled stays settled *)

LEMMA AfterKeeps ==
  ASSUME NEW s, NEW t, NEW X, After(s, t, X)
  PROVE  /\ \A F : Varies(t, F) => Varies(s, F)
         /\ \A f : f \notin X => IsOn(t, f) = IsOn(s, f)
         /\ \A f : f \notin NewFlags /\ IsOn(t, f) => IsOn(s, f)
         /\ t \in Stream /\ t.l3 = s.l3 /\ t.l4 = s.l4 /\ t.icmp = s.icmp
         /\ s.flen = "Fixed" => t.flen = "Fixed"
<1>1. \A F : Varies(t, F) => Varies(s, F)
  BY DEF After, Varies
<1>2. \A f : f \notin X => IsOn(t, f) = IsOn(s, f)
  BY DEF After, IsOn
<1>3. \A f : f \notin NewFlags /\ IsOn(t, f) => IsOn(s, f)
  BY DEF After, IsOn
<1> QED BY <1>1, <1>2, <1>3 DEF After

LEMMA AfterTunnel ==
  ASSUME NEW s, OneTunnel(s), NEW t, NEW X, After(s, t, X)
  PROVE  OneTunnel(t)
<1>1. /\ IsOn(t, "vxlan_enabled") => IsOn(s, "vxlan_enabled")
      /\ IsOn(t, "gtpu_enabled") => IsOn(s, "gtpu_enabled")
  BY AfterKeeps, NewFlagsApart
<1>2. Varies(t, L4PortModes) => Varies(s, L4PortModes)
  BY AfterKeeps
<1> QED BY <1>1, <1>2, AfterKeeps DEF OneTunnel, Tunnel

LEMMA LinkStays ==
  ASSUME NEW s, NEW t, NEW X, After(s, t, X)
  PROVE  /\ NetworkSettled(s) => NetworkSettled(t)
         /\ X \cap {"vlan_enabled", "vlan2_enabled"} = {} /\ VlanSettled(s) => VlanSettled(t)
         /\ X \cap {"mpls_enabled", "mpls_label2_enabled", "mpls_label3_enabled"} = {} /\ MplsSettled(s) => MplsSettled(t)
<1>1. NetworkSettled(s) => NetworkSettled(t)
  <2>1. t.on \cap NetworkSwitches \subseteq s.on
    BY DEF After, NewFlags, PortFlags, NetworkSwitches
  <2> QED BY <2>1, AfterKeeps DEF NetworkSettled, NetworkSwitches
<1>2. X \cap {"vlan_enabled", "vlan2_enabled"} = {} /\ VlanSettled(s) => VlanSettled(t)
  BY AfterKeeps DEF VlanSettled
<1>3. X \cap {"mpls_enabled", "mpls_label2_enabled", "mpls_label3_enabled"} = {} /\ MplsSettled(s) => MplsSettled(t)
  BY AfterKeeps DEF MplsSettled
<1> QED BY <1>1, <1>2, <1>3

LEMMA GreStays ==
  ASSUME NEW s \in Stream, OneTunnel(s), NEW t, NEW X, After(s, t, X), X \cap (GreSwitches \cup LongSwitches) = {}, GreSettled(s)
  PROVE  GreSettled(t)
<1>1. \A f \in GreSwitches : IsOn(t, f) = IsOn(s, f)
  BY AfterKeeps
<1>2. CASE s.l4 = "GRE"
  <2>1. t.gre = s.gre
    BY <1>2 DEF After
  <2>2. GreInnerVersion(t) = GreInnerVersion(s)
    BY <1>1, <2>1 DEF GreInnerVersion, GreSwitches
  <2>3. Roomy(t)
    BY <1>2, RoomyAfter DEF GreSettled
  <2>4. t.on \cap {"gre_checksum_present", "gre_checksum_override"} = s.on \cap {"gre_checksum_present", "gre_checksum_override"}
    BY <1>1 DEF GreSwitches, IsOn
  <2>5. t.l4 = "GRE" /\ t.flen = "Fixed" /\ (IsOn(t, "gre_key_present") = IsOn(s, "gre_key_present"))
        /\ (IsOn(t, "gre_sequence_present") = IsOn(s, "gre_sequence_present"))
        /\ (IsOn(t, "gre_type_ipv6") = IsOn(s, "gre_type_ipv6"))
    BY <1>1, <1>2, AfterKeeps DEF GreSettled, GreSwitches
  <2>6. \A F : Varies(t, F) => Varies(s, F)
    BY AfterKeeps
  <2> QED BY <1>2, <2>2, <2>3, <2>4, <2>5, <2>6 DEF GreSettled
<1>3. CASE s.l4 # "GRE"
  <2>1. t.gre \in {s.gre, "IPv4"}
    BY DEF After
  <2> QED BY <1>3, <2>1, AfterKeeps DEF GreSettled
<1> QED BY <1>2, <1>3

LEMMA GtpuStays ==
  ASSUME NEW s \in Stream, OneTunnel(s), NEW t, NEW X, After(s, t, X), X \cap (GtpuFlags \cup LongSwitches) = {}, GtpuSettled(s)
  PROVE  /\ GtpuSettled(t)
         /\ X \cap PortFlags = {} /\ GtpuPortsSettled(s) => GtpuPortsSettled(t)
<1>1. \A f \in GtpuFlags \cup {"gtpu_enabled"} : IsOn(t, f) = IsOn(s, f)
  BY AfterKeeps DEF LongSwitches, TunnelFlags
<1>2. HasGtpu(t) = HasGtpu(s)
  BY <1>1, AfterKeeps DEF HasGtpu
<1>3. GtpuSettled(t)
  <2>1. CASE HasGtpu(s)
    <3>1. t.gtpu = s.gtpu
      BY <1>2, <2>1 DEF After
    <3>2. Roomy(t)
      <4>1. Tunnel(s)
        BY <2>1 DEF HasGtpu, Tunnel
      <4> QED BY <2>1, <4>1, RoomyAfter DEF GtpuSettled
    <3>3. t.on \cap {"udp_length_override", "udp_checksum_override", "dns_enabled", "dhcp_enabled"} \subseteq s.on
      BY NewFlagsApart DEF After, UdpFlags, MessageFlags
    <3>4. \A F : Varies(t, F) => Varies(s, F)
      BY AfterKeeps
    <3>5. t.flen = "Fixed"
      BY <2>1, AfterKeeps DEF GtpuSettled
    <3> QED BY <1>1, <1>2, <2>1, <3>1, <3>2, <3>3, <3>4, <3>5 DEF GtpuSettled, GtpuFlags
  <2>2. CASE ~HasGtpu(s)
    <3>1. t.gtpu \in {s.gtpu, "IPv4"}
      BY DEF After
    <3>2. t.on \cap GtpuFlags = s.on \cap GtpuFlags
      BY <1>1 DEF IsOn
    <3> QED BY <1>2, <2>2, <3>1, <3>2, AfterKeeps DEF GtpuSettled
  <2> QED BY <2>1, <2>2
<1>4. X \cap PortFlags = {} /\ GtpuPortsSettled(s) => GtpuPortsSettled(t)
  BY <1>2 DEF GtpuPortsSettled, After
<1> QED BY <1>3, <1>4

LEMMA UdpStays ==
  ASSUME NEW s \in Stream, OneTunnel(s), NEW t, NEW X, After(s, t, X)
  PROVE  /\ X \cap PortFlags = {} /\ PortsSettled(s) => PortsSettled(t)
         /\ X \cap (MessageFlags \cup TunnelFlags) = {} /\ UdpSettled(s) => UdpSettled(t)
         /\ X \cap (MessageFlags \cup LongSwitches \cup {"payload_enabled", "dns_answer_enabled"}) = {} /\ DnsSettled(s) =>
              DnsSettled(t)
         /\ X \cap (MessageFlags \cup LongSwitches \cup PortFlags \cup {"payload_enabled", "dhcp_option_values"}) = {}
              /\ DhcpSettled(s) => DhcpSettled(t)
<1>0. /\ \A F : Varies(t, F) => Varies(s, F)
      /\ t.l3 = s.l3 /\ t.l4 = s.l4
      /\ t.on \cap UdpFlags \subseteq s.on
      /\ IsOn(t, "udp_length_override") => IsOn(s, "udp_length_override")
      /\ IsOn(t, "udp_checksum_override") => IsOn(s, "udp_checksum_override")
      /\ IsOn(t, "dns_answer_enabled") => IsOn(s, "dns_answer_enabled")
  <2>1. "dns_answer_enabled" \notin NewFlags
    BY DEF NewFlags, PortFlags
  <2>2. t.on \cap UdpFlags \subseteq s.on
    BY NewFlagsApart DEF After
  <2> QED BY <2>1, <2>2, AfterKeeps DEF UdpFlags, IsOn
<1>1. ASSUME X \cap PortFlags = {}, PortsSettled(s) PROVE PortsSettled(t)
  <2>1. t.on \cap PortFlags = s.on \cap PortFlags
    BY <1>1 DEF After
  <2>2. HasPorts(t) = HasPorts(s)
    BY <1>0 DEF HasPorts
  <2> QED BY <1>0, <1>1, <2>1, <2>2 DEF PortsSettled
<1>2. ASSUME X \cap (MessageFlags \cup TunnelFlags) = {}, UdpSettled(s) PROVE UdpSettled(t)
  <2>1. \A f \in MessageFlags \cup TunnelFlags : IsOn(t, f) = IsOn(s, f)
    BY <1>2, AfterKeeps
  <2>2. HasDns(t) = HasDns(s) /\ HasDhcp(t) = HasDhcp(s)
    BY <1>0, <2>1 DEF HasDns, HasDhcp, Tunnel, MessageFlags, TunnelFlags
  <2> QED BY <1>0, <1>2, <2>1, <2>2 DEF UdpSettled, MessageFlags
<1>3. ASSUME X \cap (MessageFlags \cup LongSwitches \cup {"payload_enabled", "dns_answer_enabled"}) = {}, DnsSettled(s)
      PROVE  DnsSettled(t)
  <2>1. \A f \in {"dns_enabled", "payload_enabled", "dns_answer_enabled"} : IsOn(t, f) = IsOn(s, f)
    BY <1>3, AfterKeeps DEF MessageFlags
  <2>2. Roomy(s) => Roomy(t)
    BY <1>3, RoomyAfter
  <2> QED BY <1>0, <1>3, <2>1, <2>2 DEF DnsSettled
<1>4. ASSUME X \cap (MessageFlags \cup LongSwitches \cup PortFlags \cup {"payload_enabled", "dhcp_option_values"}) = {},
             DhcpSettled(s)
      PROVE  DhcpSettled(t)
  <2>1. \A f \in {"dhcp_enabled", "payload_enabled", "dhcp_option_values"} : IsOn(t, f) = IsOn(s, f)
    BY <1>4, AfterKeeps DEF MessageFlags
  <2>2. Roomy(s) => Roomy(t)
    BY <1>4, RoomyAfter
  <2>3. t.on \cap PortFlags = s.on \cap PortFlags
    BY <1>4 DEF After
  <2> QED BY <1>0, <1>4, <2>1, <2>2, <2>3 DEF DhcpSettled
<1> QED BY <1>1, <1>2, <1>3, <1>4

LEMMA TransportStays ==
  ASSUME NEW s \in Stream, OneTunnel(s), NEW t, NEW X, After(s, t, X)
  PROVE  /\ X \cap TcpOptionFlags = {} /\ TcpSettled(s) => TcpSettled(t)
         /\ X \cap (SctpSwitches \cup LongSwitches) = {} /\ SctpSettled(s) => SctpSettled(t)
         /\ X \cap LongSwitches = {} /\ IcmpSettled(s) => IcmpSettled(t)
<1>0. /\ \A F : Varies(t, F) => Varies(s, F)
      /\ t.l3 = s.l3 /\ t.l4 = s.l4 /\ t.icmp = s.icmp /\ (s.flen = "Fixed" => t.flen = "Fixed")
  BY AfterKeeps
<1>1. ASSUME X \cap TcpOptionFlags = {}, TcpSettled(s) PROVE TcpSettled(t)
  <2>1. \A f \in TcpOptionFlags : IsOn(t, f) = IsOn(s, f)
    BY <1>1, AfterKeeps
  <2>2. t.on \cap TcpOptionFlags = s.on \cap TcpOptionFlags
    BY <2>1 DEF IsOn
  <2>3. /\ IsOn(t, "tcp_option_window_scale_enabled") = IsOn(s, "tcp_option_window_scale_enabled")
        /\ IsOn(t, "tcp_option_sack_blocks_enabled") = IsOn(s, "tcp_option_sack_blocks_enabled")
        /\ IsOn(t, "tcp_option_timestamp_enabled") = IsOn(s, "tcp_option_timestamp_enabled")
    BY <2>1 DEF TcpOptionFlags
  <2> QED BY <1>0, <1>1, <2>2, <2>3 DEF TcpSettled
<1>2. ASSUME X \cap (SctpSwitches \cup LongSwitches) = {}, SctpSettled(s) PROVE SctpSettled(t)
  <2>1. t.on \cap SctpSwitches = s.on \cap SctpSwitches
    BY <1>2 DEF After
  <2>2. s.l4 = "SCTP" /\ Roomy(s) => Roomy(t)
    BY <1>2, RoomyAfter
  <2> QED BY <1>0, <1>2, <2>1, <2>2 DEF SctpSettled, SctpSwitches, IsOn
<1>3. ASSUME X \cap LongSwitches = {}, IcmpSettled(s) PROVE IcmpSettled(t)
  <2>1. IsOn(t, "icmp_checksum_override") => IsOn(s, "icmp_checksum_override")
    BY AfterKeeps DEF NewFlags, PortFlags
  <2>2. Icmpv6(t) = Icmpv6(s) /\ Icmpv6Echo(t) = Icmpv6Echo(s) /\ Icmpv6Control(t) = Icmpv6Control(s)
    BY <1>0 DEF Icmpv6, Icmpv6Echo, Icmpv6Control
  <2>3. Icmpv6Control(s) /\ Roomy(s) => Roomy(t)
    <3>1. Icmpv6Control(s) => s.l4 # "UDP"
      BY DEF Icmpv6Control, Icmpv6
    <3> QED BY <1>3, <3>1, RoomyAfter
  <2> QED BY <1>0, <1>3, <2>1, <2>2, <2>3 DEF IcmpSettled
<1> QED BY <1>1, <1>2, <1>3
-----------------------------------------------------------------------------
(* A settled stream is not changed *)

\* Steps that have nothing to do.
LEMMA NothingToDo ==
  ASSUME NEW s \in Stream
  PROVE  /\ \A F : s.on \cap F = {} => TurnOff(s, F) = s
         /\ \A F : F \subseteq s.on => TurnOn(s, F) = s
         /\ \A F : ~Varies(s, F) => Fix(s, F) = s
         /\ \A F, G : s.on \cap F = {} /\ ~Varies(s, G) => Drop(s, F, G) = s
         /\ s.flen = "Fixed" => FixLength(s) = s
         /\ Roomy(s) => Raised(s) = s
<1>1. ASSUME NEW F, s.on \cap F = {} PROVE TurnOff(s, F) = s
  <2>1. s.on \ F = s.on
    BY <1>1
  <2> QED BY <2>1 DEF TurnOff, Stream
<1>2. ASSUME NEW F, F \subseteq s.on PROVE TurnOn(s, F) = s
  <2>1. s.on \cup F = s.on
    BY <1>2
  <2> QED BY <2>1 DEF TurnOn, Stream
<1>3. ASSUME NEW F, ~Varies(s, F) PROVE Fix(s, F) = s
  <2>1. s.vary \ F = s.vary
    BY <1>3 DEF Varies
  <2> QED BY <2>1 DEF Fix, Stream
<1>4. ASSUME NEW F, NEW G, s.on \cap F = {}, ~Varies(s, G) PROVE Drop(s, F, G) = s
  BY <1>1, <1>3, <1>4 DEF Drop
<1>5. s.flen = "Fixed" => FixLength(s) = s
  BY DEF FixLength, Stream
<1>6. ASSUME Roomy(s) PROVE Raised(s) = s
  <2> DEFINE n == MinimumWireLength(s)
  <2>1. n \in Nat /\ s.length \in Nat /\ s.min \in Nat /\ s.max \in Nat
    BY WireLength DEF Stream
  <2>2. s.length >= n /\ s.min >= n /\ s.max >= n
    BY <1>6 DEF Roomy
  <2> HIDE DEF n
  <2>3. Longer(s.length, n) = s.length /\ Longer(s.min, n) = s.min /\ Longer(s.max, n) = s.max
    BY <2>1, <2>2 DEF Longer
  <2>4. AtLeast(s, n) = s
    BY <2>3 DEF AtLeast, Stream
  <2>5. minimumFrameLengthPatch(s, n) = s
    BY <2>3, <2>4 DEF minimumFrameLengthPatch, Stream
  <2> QED BY <2>5 DEF Raised, n
<1> QED BY <1>1, <1>2, <1>3, <1>4, <1>5, <1>6

LEMMA SameLink ==
  ASSUME NEW s \in Stream
  PROVE  /\ LengthSettled(s) => NormLength(s) = s
         /\ OneTunnel(s) => NormTunnels(s) = s
         /\ NetworkSettled(s) => NormNetwork(s) = s
         /\ VlanSettled(s) => NormVlan(s) = s
         /\ MplsSettled(s) => NormMpls(s) = s
<1>1. ASSUME LengthSettled(s) PROVE NormLength(s) = s
  <2>0. s.length \in Nat /\ s.min \in Nat /\ s.max \in Nat
    BY DEF Stream
  <2>1. CASE IsOn(s, "bytes")
    <3> DEFINE longest == Longer(1518, s.length)
    <3>1. FixLength(s) = s /\ s.min = 64 /\ s.max = longest
      BY <1>1, <2>1, NothingToDo DEF LengthSettled
    <3>2. NormLength(s) = [FixLength(s) EXCEPT !.min = 64, !.max = longest]
      BY <2>1 DEF NormLength
    <3> HIDE DEF longest
    <3>3. [s EXCEPT !.min = 64, !.max = longest] = s
      <4>1. s = [s EXCEPT !.min = s.min, !.max = s.max]
        BY DEF Stream
      <4> QED BY <3>1, <4>1
    <3> QED BY <3>1, <3>2, <3>3
  <2>2. CASE s.flen # "Fixed" /\ ~IsOn(s, "bytes")
    <3> DEFINE min == IF s.min > 9211 THEN 9211 ELSE s.min
               max == IF s.max <= min THEN min + 5 ELSE s.max
    <3>1. min = s.min /\ max = s.max /\ max = s.length
      BY <1>1, <2>0, <2>2 DEF LengthSettled
    <3> HIDE DEF min, max
    <3>2. [s EXCEPT !.min = min, !.max = max, !.length = max] = s
      BY <3>1 DEF Stream
    <3>3. NormLength(s) = [s EXCEPT !.min = min, !.max = max, !.length = max]
      BY <2>2 DEF NormLength, min, max
    <3> QED BY <3>2, <3>3
  <2>3. CASE s.flen = "Fixed" /\ ~IsOn(s, "bytes")
    BY <2>3 DEF NormLength
  <2> QED BY <2>1, <2>2, <2>3
<1>2. ASSUME OneTunnel(s) PROVE NormTunnels(s) = s
  <2>1. IsOn(s, "gtpu_enabled") => TurnOff(s, {"vxlan_enabled"}) = s
    BY <1>2, NothingToDo DEF OneTunnel, Tunnel, IsOn
  <2>2. Tunnel(s) => [s EXCEPT !.l3 = "IPv4", !.l4 = "UDP"] = s
    BY <1>2 DEF OneTunnel, Stream
  <2> QED BY <2>1, <2>2 DEF NormTunnels
<1>3. NetworkSettled(s) => NormNetwork(s) = s
  BY NothingToDo DEF NormNetwork, NetworkSettled
<1>4. ASSUME VlanSettled(s) PROVE NormVlan(s) = s
  <2>1. ~IsOn(s, "vlan2_enabled") => s.on \cap {"vlan2_enabled"} = {}
    BY DEF IsOn
  <2> QED BY <1>4, <2>1, NothingToDo DEF NormVlan, VlanSettled
<1>5. ASSUME MplsSettled(s) PROVE NormMpls(s) = s
  <2>1. ~IsOn(s, "mpls_label3_enabled") => s.on \cap {"mpls_label3_enabled"} = {}
    BY DEF IsOn
  <2>2. ~IsOn(s, "mpls_enabled") => Fix(s, MplsModes \cup Mpls2Modes \cup Mpls3Modes) = s
    BY <1>5, NothingToDo DEF MplsSettled
  <2>3. ~IsOn(s, "mpls_label2_enabled") => Drop(s, {"mpls_label3_enabled"}, Mpls2Modes \cup Mpls3Modes) = s
    BY <1>5, <2>1, NothingToDo DEF MplsSettled
  <2>4. ~IsOn(s, "mpls_label3_enabled") => Fix(s, Mpls3Modes) = s
    BY <1>5, NothingToDo DEF MplsSettled
  <2> QED BY <2>2, <2>3, <2>4 DEF NormMpls
<1> QED BY <1>1, <1>2, <1>3, <1>4, <1>5

LEMMA SameTunnels ==
  ASSUME NEW s \in Stream
  PROVE  /\ GreSettled(s) => NormGre(s) = s
         /\ GtpuSettled(s) /\ GtpuPortsSettled(s) => NormGtpu(s) = s
         /\ VxlanSettled(s) => NormVxlan(s) = s
<1>1. ASSUME GreSettled(s) PROVE NormGre(s) = s
  <2>1. CASE s.l4 = "GRE"
    <3>1. FixLength(s) = s /\ Fix(s, UdpModes \cup {"tcp_checksum"}) = s /\ Raised(s) = s
          /\ Fix(s, OtherVersion(GreInnerVersion(s), GreInner4Modes, GreInner6Modes)) = s
      BY <1>1, <2>1, NothingToDo DEF GreSettled
    <3>2. TurnOn(s, (IF Varies(s, {"gre_key"}) THEN {"gre_key_present"} ELSE {})
                      \cup (IF Varies(s, {"gre_sequence"}) THEN {"gre_sequence_present"} ELSE {})) = s
      BY <1>1, <2>1, NothingToDo DEF GreSettled, IsOn
    <3>3. Varies(s, GreModes) => TurnOff(s, {"gre_checksum_present", "gre_checksum_override"}) = s
      BY <1>1, <2>1, NothingToDo DEF GreSettled
    <3>4. GreInnerVersion(s) = "IPv6" => TurnOn(s, {"gre_type_ipv6"}) = s
      BY <1>1, <2>1, NothingToDo DEF GreSettled, IsOn
    <3> QED BY <2>1, <3>1, <3>2, <3>3, <3>4 DEF NormGre
  <2>2. CASE s.l4 # "GRE"
    <3>1. [s EXCEPT !.gre = "IPv4"] = s /\ Fix(s, GreModes) = s
      BY <1>1, <2>2, NothingToDo DEF GreSettled, Stream
    <3> QED BY <2>2, <3>1 DEF NormGre
  <2> QED BY <2>1, <2>2
<1>2. ASSUME GtpuSettled(s), GtpuPortsSettled(s) PROVE NormGtpu(s) = s
  <2>1. CASE HasGtpu(s)
    <3>1. FixLength(s) = s /\ Raised(s) = s /\ Fix(s, L4PortModes) = s
      BY <1>2, <2>1, NothingToDo DEF GtpuSettled, Varies
    <3>2. TurnOn(s, {"l4_src_port_override", "l4_dst_port_override"}) = s
      BY <1>2, <2>1, NothingToDo DEF GtpuPortsSettled, PortFlags
    <3>3. Drop(s, {"udp_length_override", "udp_checksum_override", "dns_enabled", "dhcp_enabled"},
               UdpModes \cup DnsModes \cup DhcpModes) = s
      <4>1. ~Varies(s, UdpModes \cup DnsModes \cup DhcpModes)
        BY <1>2, <2>1 DEF GtpuSettled, Varies
      <4> QED BY <1>2, <2>1, <4>1, NothingToDo DEF GtpuSettled
    <3>4. Fix(s, (IF IsOn(s, "gtpu_sequence_enabled") THEN {} ELSE {"gtpu_sequence"})
                   \cup (IF IsOn(s, "gtpu_npdu_enabled") THEN {} ELSE {"gtpu_npdu"})
                   \cup (IF IsOn(s, "gtpu_extension_enabled") THEN {} ELSE {"gtpu_extension_udp_port"})) = s
      BY <1>2, <2>1, NothingToDo DEF GtpuSettled, Varies
    <3>5. Fix(s, OtherVersion(s.gtpu, GtpuInner4Modes, GtpuInner6Modes)) = s
      BY <1>2, <2>1, NothingToDo DEF GtpuSettled
    <3> QED BY <2>1, <3>1, <3>2, <3>3, <3>4, <3>5 DEF NormGtpu
  <2>2. CASE ~HasGtpu(s)
    <3>1. [s EXCEPT !.gtpu = "IPv4"] = s /\ Drop(s, GtpuFlags, GtpuModes) = s
      BY <1>2, <2>2, NothingToDo DEF GtpuSettled, Stream
    <3> QED BY <2>2, <3>1 DEF NormGtpu
  <2> QED BY <2>1, <2>2
<1>3. ASSUME VxlanSettled(s) PROVE NormVxlan(s) = s
  <2>1. IsOn(s, "vxlan_enabled") =>
          /\ FixLength(Fix(s, L4PortModes \cup {"udp_length"} \cup OtherVersion(s.vxlan, VxlanInner4Modes, VxlanInner6Modes))) = s
          /\ ~IsOn(s, "bytes") => Raised(s) = s
    <3>1. IsOn(s, "vxlan_enabled") => s.flen = "Fixed"
      BY <1>3 DEF VxlanSettled, SupportsVariableLength, Tunnel
    <3> QED BY <1>3, <3>1, NothingToDo DEF VxlanSettled
  <2>2. ~IsOn(s, "vxlan_enabled") => Fix([s EXCEPT !.vxlan = "IPv4"], VxlanModes) = s
    <3>1. ~IsOn(s, "vxlan_enabled") => [s EXCEPT !.vxlan = "IPv4"] = s
      BY <1>3 DEF VxlanSettled, Stream
    <3> QED BY <1>3, <3>1, NothingToDo DEF VxlanSettled
  <2>3. ~SupportsVariableLength(s) => FixLength(s) = s
    BY <1>3, NothingToDo DEF VxlanSettled
  <2> QED BY <2>1, <2>2, <2>3 DEF NormVxlan
<1> QED BY <1>1, <1>2, <1>3

LEMMA SameMessages ==
  ASSUME NEW s \in Stream
  PROVE  /\ PortsSettled(s) => NormPorts(s) = s
         /\ UdpSettled(s) => NormUdp(s) = s
         /\ DnsSettled(s) => NormDns(s) = s
         /\ DhcpSettled(s) => NormDhcp(s) = s
<1>1. PortsSettled(s) => NormPorts(s) = s
  BY NothingToDo DEF PortsSettled, NormPorts, PortFlags
<1>2. ASSUME UdpSettled(s) PROVE NormUdp(s) = s
  <2>1. ~IsOn(s, "dns_enabled") => NoDns(s) = s
    BY <1>2, NothingToDo DEF UdpSettled, NoDns, IsOn
  <2>2. ~IsOn(s, "dhcp_enabled") => NoDhcp(s) = s
    BY <1>2, NothingToDo DEF UdpSettled, NoDhcp, IsOn
  <2>3. s.l4 # "UDP" => Drop(s, {"udp_length_override", "udp_checksum_override"}, {"udp_checksum"}) = s
    BY <1>2, NothingToDo DEF UdpSettled, UdpFlags
  <2>4. ~IsOn(s, "dns_enabled") => TurnOff(s, {"dns_answer_enabled"}) = s
    BY <1>2, NothingToDo DEF UdpSettled, IsOn
  <2>5. /\ IsOn(s, "dns_enabled") => s.l4 = "UDP" /\ ~Tunnel(s) /\ ~IsOn(s, "dhcp_enabled")
        /\ IsOn(s, "dhcp_enabled") => HasDhcp(s) /\ s.l4 = "UDP"
    BY <1>2 DEF UdpSettled, HasDns, HasDhcp
  <2> QED BY <2>1, <2>2, <2>3, <2>4, <2>5 DEF NormUdp
<1>3. DnsSettled(s) => NormDns(s) = s
  <2> SUFFICES ASSUME DnsSettled(s), IsOn(s, "dns_enabled") PROVE NormDns(s) = s
    BY DEF NormDns
  <2>1. TurnOff(s, {"udp_length_override"}) = s /\ TurnOn(s, {"payload_enabled"}) = s /\ Raised(s) = s
    BY NothingToDo DEF DnsSettled, IsOn
  <2>2. ~IsOn(s, "dns_answer_enabled") => Fix(s, DnsAnswerModes) = s
    BY NothingToDo DEF DnsSettled
  <2>3. Unchecked(s, DnsModes) = s
    BY NothingToDo DEF DnsSettled, Unchecked, IsOn
  <2> QED BY <2>1, <2>2, <2>3 DEF NormDns
<1>4. DhcpSettled(s) => NormDhcp(s) = s
  <2> SUFFICES ASSUME DhcpSettled(s), IsOn(s, "dhcp_enabled") PROVE NormDhcp(s) = s
    BY DEF NormDhcp
  <2>1. /\ Drop(s, {"udp_length_override"}, {"udp_length"}) = s /\ Raised(s) = s
        /\ TurnOn(s, {"payload_enabled", "l4_src_port_override", "l4_dst_port_override"}) = s
    BY NothingToDo DEF DhcpSettled, IsOn, PortFlags
  <2>2. ~IsOn(s, "dhcp_option_values") => Fix(s, DhcpOptionModes) = s
    BY NothingToDo DEF DhcpSettled
  <2>3. Unchecked(s, DhcpModes) = s
    BY NothingToDo DEF DhcpSettled, Unchecked, IsOn
  <2> QED BY <2>1, <2>2, <2>3 DEF NormDhcp
<1> QED BY <1>1, <1>2, <1>3, <1>4

LEMMA SameTransport ==
  ASSUME NEW s \in Stream
  PROVE  /\ TcpSettled(s) => NormTcp(s) = s
         /\ SctpSettled(s) => NormSctp(s) = s
         /\ IcmpSettled(s) => NormIcmp(s) = s
<1>1. TcpSettled(s) => NormTcp(s) = s
  BY NothingToDo DEF TcpSettled, NormTcp, Without
<1>2. ASSUME SctpSettled(s) PROVE NormSctp(s) = s
  <2>1. s.l4 # "SCTP" => Drop(s, {"sctp_checksum_override"}, SctpModes) = s
    BY <1>2, NothingToDo DEF SctpSettled, IsOn
  <2>2. Varies(s, SctpModes) \/ Varies(s, L4PortModes) => Varies(s, SctpModes \cup L4PortModes)
    BY DEF Varies
  <2>3. s.l4 = "SCTP" /\ Varies(s, SctpModes \cup L4PortModes) => TurnOn(s, {"sctp_checksum_override", "sctp_zero"}) = s
    BY <1>2, NothingToDo DEF SctpSettled
  <2>4. s.l4 = "SCTP" /\ Varies(s, SctpModes) => Raised(s) = s
    BY <1>2, NothingToDo DEF SctpSettled
  <2> QED BY <2>1, <2>2, <2>3, <2>4 DEF NormSctp
<1>3. ASSUME IcmpSettled(s) PROVE NormIcmp(s) = s
  <2>1. s.l4 # "ICMP" \/ Varies(s, IcmpModes) => TurnOff(s, {"icmp_checksum_override"}) = s
    BY <1>3, NothingToDo DEF IcmpSettled, IsOn
  <2>2. ~Icmpv6Echo(s) => Fix(s, IcmpModes) = s
    BY <1>3, NothingToDo DEF IcmpSettled
  <2>3. Icmpv6(s) => FixLength(s) = s /\ Fix(s, Ipv6AddressModes) = s
    BY <1>3, NothingToDo DEF IcmpSettled
  <2>4. Icmpv6Control(s) => Fix(s, {"ipv6_hop_limit"}) = s /\ Raised(s) = s
    BY <1>3, NothingToDo DEF IcmpSettled
  <2> QED BY <2>1, <2>2, <2>3, <2>4 DEF NormIcmp
<1> QED BY <1>1, <1>2, <1>3

\* The server leaves alone what it has settled.
LEMMA SettledSame ==
  ASSUME NEW s, Settled(s)
  PROVE  Normalise(s) = s
<1>0. s \in Stream
  BY DEF Settled
<1>1. /\ NormLength(s) = s /\ NormTunnels(s) = s /\ NormNetwork(s) = s /\ NormVlan(s) = s /\ NormMpls(s) = s
  BY <1>0, SameLink DEF Settled, HeadersSettled
<1>2. NormGre(s) = s /\ NormGtpu(s) = s /\ NormVxlan(s) = s
  BY <1>0, SameTunnels DEF Settled, HeadersSettled, TransportSettled
<1>3. NormPorts(s) = s /\ NormUdp(s) = s /\ NormDns(s) = s /\ NormDhcp(s) = s
  BY <1>0, SameMessages DEF Settled, HeadersSettled, MessagesSettled
<1>4. NormTcp(s) = s /\ NormSctp(s) = s /\ NormIcmp(s) = s
  BY <1>0, SameTransport DEF Settled, TransportSettled
<1> QED BY <1>1, <1>2, <1>3, <1>4 DEF Normalise
-----------------------------------------------------------------------------
(* What each stage of the server settles *)

Short(s) == s \in Stream /\ s.flen = "Fixed"

LEMMA ShortSteps ==
  ASSUME NEW s
  PROVE  /\ s \in Stream => Short(FixLength(s))
         /\ Short(s) => Short(Raised(s))
         /\ \A F : Short(s) => Short(Fix(s, F))
         /\ \A F : Short(s) => Short(TurnOff(s, F))
         /\ \A F : F \subseteq Flags /\ Short(s) => Short(TurnOn(s, F))
         /\ \A F, G : Short(s) => Short(Drop(s, F, G))
<1>1. ASSUME s \in Stream
      PROVE  /\ Short(FixLength(s)) /\ (Short(s) => Short(Raised(s)))
             /\ \A F : Short(s) => Short(Fix(s, F))
             /\ \A F : Short(s) => Short(TurnOff(s, F))
             /\ \A F : F \subseteq Flags /\ Short(s) => Short(TurnOn(s, F))
  BY <1>1, Written, RaisedWrites, Sizes DEF Short, Alike
<1>2. ASSUME NEW F, NEW G, Short(s) PROVE Short(Drop(s, F, G))
  <2> DEFINE t == TurnOff(s, F)
  <2>1. Short(t)
    BY <1>1, <1>2 DEF Short
  <2>2. Short(Fix(t, G))
    BY <2>1, Written, Sizes DEF Short, Alike
  <2> QED BY <2>2 DEF Drop
<1> QED BY <1>1, <1>2 DEF Short

LEMMA SettlesLength ==
  ASSUME NEW s \in Stream
  PROVE  LengthSettled(NormLength(s))
<1> DEFINE min == IF s.min > 9211 THEN 9211 ELSE s.min
           max == IF s.max <= min THEN min + 5 ELSE s.max
           longest == Longer(1518, s.length)
           u == [s EXCEPT !.min = min, !.max = max, !.length = max]
           w == [FixLength(s) EXCEPT !.min = 64, !.max = longest]
<1>0. s.length \in Nat /\ s.min \in Nat /\ s.max \in Nat
  BY DEF Stream
<1>1. min \in Nat /\ max \in Nat /\ min <= 9211 /\ max > min
  BY <1>0
<1>2. longest = Longer(1518, s.length)
  OBVIOUS
<1>3. NormLength(s) = IF IsOn(s, "bytes") THEN w ELSE IF s.flen # "Fixed" THEN u ELSE s
  BY DEF NormLength
<1> HIDE DEF min, max, longest
<1>4. u.on = s.on /\ u.flen = s.flen /\ u.min = min /\ u.max = max /\ u.length = max
  BY DEF Stream
<1>5. w.flen = "Fixed" /\ w.min = 64 /\ w.max = longest /\ w.length = s.length
  BY DEF FixLength, Stream
<1> HIDE DEF u, w
<1>6. IsOn(s, "bytes") => LengthSettled(w)
  BY <1>2, <1>5 DEF LengthSettled
<1>7. ~IsOn(s, "bytes") /\ s.flen # "Fixed" => LengthSettled(u)
  BY <1>1, <1>4 DEF LengthSettled, IsOn
<1>8. ~IsOn(s, "bytes") /\ s.flen = "Fixed" => LengthSettled(s)
  BY DEF LengthSettled
<1> QED BY <1>3, <1>6, <1>7, <1>8

LEMMA SettlesLink ==
  ASSUME NEW s \in Stream
  PROVE  NetworkSettled(NormNetwork(s)) /\ VlanSettled(NormVlan(s)) /\ MplsSettled(NormMpls(s))
<1>0. Writes(s, s, s.on, s.vary)
  BY WriteSelf
<1>1. NetworkSettled(NormNetwork(s))
  <2> DEFINE u == NormNetwork(s)
             F == CASE s.l3 = "ARP" -> {"mpls_enabled", "vxlan_enabled", "gtpu_enabled", "flow_stats_enabled", "latency_enabled"}
                    [] s.l3 = "None" -> {"mpls_enabled", "vxlan_enabled", "gtpu_enabled"}
                    [] OTHER -> {}
  <2>1. s.l3 \in {"ARP", "None"} => Writes(s, u, s.on \ F, s.vary)
    BY <1>0, WriteSteps DEF NormNetwork
  <2>2. s.l3 \notin {"ARP", "None"} => u = s
    BY DEF NormNetwork
  <2>3. s.l3 \in {"ARP", "None"} => u.l3 = s.l3 /\ u.on = s.on \ F
    BY <2>1 DEF Writes, Alike
  <2> HIDE DEF u
  <2>4. NetworkSettled(u)
    BY <2>2, <2>3 DEF NetworkSettled
  <2> QED BY <2>4 DEF u
<1>2. VlanSettled(NormVlan(s))
  <2> DEFINE u == NormVlan(s)
  <2>1. ~IsOn(s, "vlan_enabled") => Writes(s, u, s.on \ {"vlan2_enabled"}, s.vary \ (VlanModes \cup Vlan2Modes))
    BY <1>0, WriteSteps DEF NormVlan
  <2>2. IsOn(s, "vlan_enabled") /\ ~IsOn(s, "vlan2_enabled") => Writes(s, u, s.on, s.vary \ Vlan2Modes)
    BY <1>0, WriteSteps DEF NormVlan
  <2>3. IsOn(s, "vlan_enabled") /\ IsOn(s, "vlan2_enabled") => u = s
    BY DEF NormVlan
  <2> HIDE DEF u
  <2>4. VlanSettled(u)
    BY <2>1, <2>2, <2>3 DEF VlanSettled, Writes, IsOn, Varies
  <2> QED BY <2>4 DEF u
<1>3. MplsSettled(NormMpls(s))
  <2> DEFINE u == NormMpls(s)
             F == IF IsOn(s, "mpls_enabled") THEN {} ELSE MplsModes \cup Mpls2Modes \cup Mpls3Modes
             top == IF IsOn(s, "mpls_enabled") THEN s ELSE Fix(s, MplsModes \cup Mpls2Modes \cup Mpls3Modes)
  <2>1. Writes(s, top, s.on, s.vary \ F)
    <3>1. s.vary \ {} = s.vary
      OBVIOUS
    <3> QED BY <1>0, <3>1, WriteSteps
  <2>2. u = CASE ~IsOn(s, "mpls_label2_enabled") -> Drop(top, {"mpls_label3_enabled"}, Mpls2Modes \cup Mpls3Modes)
              [] IsOn(s, "mpls_label2_enabled") /\ ~IsOn(s, "mpls_label3_enabled") -> Fix(top, Mpls3Modes)
              [] OTHER -> top
    BY DEF NormMpls
  <2> HIDE DEF u, top
  <2>3. ~IsOn(s, "mpls_label2_enabled") =>
          Writes(s, u, s.on \ {"mpls_label3_enabled"}, (s.vary \ F) \ (Mpls2Modes \cup Mpls3Modes))
    BY <2>1, <2>2, WriteSteps
  <2>4. IsOn(s, "mpls_label2_enabled") /\ ~IsOn(s, "mpls_label3_enabled") => Writes(s, u, s.on, (s.vary \ F) \ Mpls3Modes)
    BY <2>1, <2>2, WriteSteps
  <2>5. IsOn(s, "mpls_label2_enabled") /\ IsOn(s, "mpls_label3_enabled") => Writes(s, u, s.on, s.vary \ F)
    BY <2>1, <2>2
  <2>6. ~IsOn(s, "mpls_enabled") => F = MplsModes \cup Mpls2Modes \cup Mpls3Modes
    OBVIOUS
  <2> HIDE DEF F
  <2>7. ~IsOn(s, "mpls_label2_enabled") => MplsSettled(u)
    BY <2>3, <2>6 DEF MplsSettled, Writes, IsOn, Varies
  <2>8. IsOn(s, "mpls_label2_enabled") /\ ~IsOn(s, "mpls_label3_enabled") => MplsSettled(u)
    BY <2>4, <2>6 DEF MplsSettled, Writes, IsOn, Varies
  <2>9. IsOn(s, "mpls_label2_enabled") /\ IsOn(s, "mpls_label3_enabled") => MplsSettled(u)
    BY <2>5, <2>6 DEF MplsSettled, Writes, IsOn, Varies
  <2> QED BY <2>7, <2>8, <2>9 DEF u
<1> QED BY <1>1, <1>2, <1>3

LEMMA SettlesGre ==
  ASSUME NEW s \in Stream
  PROVE  GreSettled(NormGre(s))
<1> DEFINE udp == Fix(FixLength(s), UdpModes \cup {"tcp_checksum"})
           other == OtherVersion(GreInnerVersion(s), GreInner4Modes, GreInner6Modes)
           inner == Fix(udp, other)
           O == (IF Varies(s, {"gre_key"}) THEN {"gre_key_present"} ELSE {})
                  \cup (IF Varies(s, {"gre_sequence"}) THEN {"gre_sequence_present"} ELSE {})
           options == TurnOn(inner, O)
           C == {"gre_checksum_present", "gre_checksum_override"}
           gre == IF Varies(options, GreModes) THEN TurnOff(options, C) ELSE options
           all == IF GreInnerVersion(s) = "IPv6" THEN TurnOn(gre, {"gre_type_ipv6"}) ELSE gre
           V == (s.vary \ (UdpModes \cup {"tcp_checksum"})) \ other
           on == IF V \cap GreModes # {} THEN (s.on \cup O) \ C ELSE s.on \cup O
           On == IF GreInnerVersion(s) = "IPv6" THEN on \cup {"gre_type_ipv6"} ELSE on
           u == NormGre(s)
<1>0. O \subseteq Flags /\ {"gre_type_ipv6"} \subseteq Flags /\ {"gre_type_ipv6"} \cap C = {} /\ C \cap O = {}
  BY DEF Flags, GreFlags
<1>1. Writes(s, inner, s.on, V) /\ Short(inner)
  <2>1. Writes(s, FixLength(s), s.on, s.vary) /\ Short(FixLength(s))
    BY WriteSelf, WriteSteps, ShortSteps
  <2>2. Writes(s, udp, s.on, s.vary \ (UdpModes \cup {"tcp_checksum"})) /\ Short(udp)
    BY <2>1, WriteSteps, ShortSteps
  <2> HIDE DEF udp
  <2> QED BY <2>2, WriteSteps, ShortSteps
<1>2. Varies(s, {"gre_key"}) => "gre_key_present" \in O
  OBVIOUS
<1>3. Varies(s, {"gre_sequence"}) => "gre_sequence_present" \in O
  OBVIOUS
<1>u. u = IF s.l4 = "GRE" THEN Raised(all) ELSE Fix([s EXCEPT !.gre = "IPv4"], GreModes)
  BY DEF NormGre
<1> HIDE DEF inner, O, other, u
<1>4. Writes(s, options, s.on \cup O, V) /\ Short(options)
  BY <1>0, <1>1, WriteSteps, ShortSteps
<1>5. Varies(options, GreModes) <=> V \cap GreModes # {}
  BY <1>4 DEF Varies, Writes
<1> HIDE DEF options
<1>6. Writes(s, gre, on, V) /\ Short(gre)
  BY <1>4, <1>5, WriteSteps, ShortSteps
<1> HIDE DEF gre, V
<1>7. Writes(s, all, On, V) /\ Short(all)
  BY <1>0, <1>6, WriteSteps, ShortSteps
<1>8. V \cap (UdpModes \cup {"tcp_checksum"}) = {} /\ V \cap other = {} /\ V \subseteq s.vary
  BY DEF V
<1>9. (V \cap GreModes # {} => On \cap C = {}) /\ O \subseteq On /\ (GreInnerVersion(s) = "IPv6" => "gre_type_ipv6" \in On)
      /\ ("gre_type_ipv6" \in On => GreInnerVersion(s) = "IPv6")
  <2>1. V \cap GreModes # {} => On \cap C = {}
    BY <1>0
  <2>2. O \subseteq On
    BY <1>0
  <2>3. GreInnerVersion(s) = "IPv6" => "gre_type_ipv6" \in On
    OBVIOUS
  <2>4. "gre_type_ipv6" \in s.on => GreInnerVersion(s) = "IPv6"
    BY DEF GreInnerVersion, IsOn
  <2>5. "gre_type_ipv6" \notin O
    BY DEF O
  <2> QED BY <2>1, <2>2, <2>3, <2>4, <2>5
<1> HIDE DEF all, On, C
<1>10. CASE s.l4 = "GRE"
  <2>1. Writes(s, u, On, V) /\ Short(u)
    BY <1>7, <1>10, <1>u, WriteSteps, ShortSteps
  <2>2. Roomy(u)
    BY <1>7, <1>10, <1>u, RaisedRoomy DEF Short
  <2>3. u.l4 = "GRE" /\ u.gre = s.gre /\ u.on = On /\ u.vary = V /\ u.flen = "Fixed"
    BY <1>10, <2>1 DEF Writes, Alike, Short
  <2>4. GreInnerVersion(u) = GreInnerVersion(s)
    <3>1. GreInnerVersion(s) \in {"IPv4", "IPv6"} /\ (s.gre = "IPv6" => GreInnerVersion(s) = "IPv6")
      BY DEF GreInnerVersion
    <3>2. IsOn(u, "gre_type_ipv6") <=> GreInnerVersion(s) = "IPv6"
      BY <1>9, <2>3 DEF IsOn
    <3> QED BY <2>3, <3>1, <3>2 DEF GreInnerVersion
  <2>5. ~Varies(u, UdpModes \cup {"tcp_checksum"})
    BY <1>8, <2>3 DEF Varies
  <2>6. ~Varies(u, OtherVersion(GreInnerVersion(u), GreInner4Modes, GreInner6Modes))
    BY <1>8, <2>3, <2>4 DEF Varies, other
  <2>7. (Varies(u, {"gre_key"}) => IsOn(u, "gre_key_present")) /\ (Varies(u, {"gre_sequence"}) => IsOn(u, "gre_sequence_present"))
    BY <1>2, <1>3, <1>8, <1>9, <2>3 DEF Varies, IsOn
  <2>8. Varies(u, GreModes) => u.on \cap {"gre_checksum_present", "gre_checksum_override"} = {}
    BY <1>9, <2>3 DEF Varies, C
  <2>9. GreInnerVersion(u) = "IPv6" => IsOn(u, "gre_type_ipv6")
    BY <1>9, <2>3, <2>4 DEF IsOn
  <2> QED BY <2>2, <2>3, <2>5, <2>6, <2>7, <2>8, <2>9 DEF GreSettled, u
<1>11. CASE s.l4 # "GRE"
  <2> DEFINE v == [s EXCEPT !.gre = "IPv4"]
  <2>1. v \in Stream /\ v.l4 = s.l4 /\ v.gre = "IPv4"
    BY DEF Stream, Versions
  <2> HIDE DEF v
  <2>2. Alike(v, Fix(v, GreModes)) /\ Fix(v, GreModes).vary = v.vary \ GreModes
    BY <2>1, Written
  <2>3. u = Fix(v, GreModes)
    BY <1>11, <1>u DEF v
  <2>4. u.l4 # "GRE" /\ u.gre = "IPv4" /\ ~Varies(u, GreModes)
    BY <1>11, <2>1, <2>2, <2>3 DEF Alike, Varies
  <2> QED BY <2>4 DEF GreSettled, u
<1> QED BY <1>10, <1>11

LEMMA SettlesGtpu ==
  ASSUME NEW s \in Stream
  PROVE  GtpuSettled(NormGtpu(s)) /\ GtpuPortsSettled(NormGtpu(s))
<1> DEFINE ports == TurnOn(Fix(FixLength(s), L4PortModes), {"l4_src_port_override", "l4_dst_port_override"})
           U == {"udp_length_override", "udp_checksum_override", "dns_enabled", "dhcp_enabled"}
           plain == Drop(ports, U, UdpModes \cup DnsModes \cup DhcpModes)
           closed == (IF IsOn(s, "gtpu_sequence_enabled") THEN {} ELSE {"gtpu_sequence"})
                       \cup (IF IsOn(s, "gtpu_npdu_enabled") THEN {} ELSE {"gtpu_npdu"})
                       \cup (IF IsOn(s, "gtpu_extension_enabled") THEN {} ELSE {"gtpu_extension_udp_port"})
           options == Fix(plain, closed)
           other == OtherVersion(s.gtpu, GtpuInner4Modes, GtpuInner6Modes)
           inner == Fix(options, other)
           On == (s.on \cup {"l4_src_port_override", "l4_dst_port_override"}) \ U
           V == (((s.vary \ L4PortModes) \ (UdpModes \cup DnsModes \cup DhcpModes)) \ closed) \ other
           u == NormGtpu(s)
<1>1. Writes(s, inner, On, V) /\ Short(inner)
  <2>1. Writes(s, FixLength(s), s.on, s.vary) /\ Short(FixLength(s))
    BY WriteSelf, WriteSteps, ShortSteps
  <2>2. Writes(s, Fix(FixLength(s), L4PortModes), s.on, s.vary \ L4PortModes) /\ Short(Fix(FixLength(s), L4PortModes))
    BY <2>1, WriteSteps, ShortSteps
  <2>3. {"l4_src_port_override", "l4_dst_port_override"} \subseteq Flags
    BY DEF Flags
  <2>4. /\ Writes(s, ports, s.on \cup {"l4_src_port_override", "l4_dst_port_override"}, s.vary \ L4PortModes)
        /\ Short(ports)
    BY <2>2, <2>3, WriteSteps, ShortSteps
  <2> HIDE DEF ports
  <2>5. Writes(s, plain, On, (s.vary \ L4PortModes) \ (UdpModes \cup DnsModes \cup DhcpModes)) /\ Short(plain)
    BY <2>4, WriteSteps, ShortSteps
  <2> HIDE DEF plain, closed, other, On
  <2>6. Writes(s, options, On, ((s.vary \ L4PortModes) \ (UdpModes \cup DnsModes \cup DhcpModes)) \ closed) /\ Short(options)
    BY <2>5, WriteSteps, ShortSteps
  <2> HIDE DEF options
  <2> QED BY <2>6, WriteSteps, ShortSteps
<1>2. u = IF HasGtpu(s) THEN Raised(inner) ELSE Drop([s EXCEPT !.gtpu = "IPv4"], GtpuFlags, GtpuModes)
  BY DEF NormGtpu
<1> HIDE DEF inner, u
<1>3. CASE HasGtpu(s)
  <2>1. Writes(s, u, On, V) /\ Short(u) /\ Roomy(u)
    BY <1>1, <1>2, <1>3, WriteSteps, ShortSteps, RaisedRoomy DEF Short
  <2>2. u.l3 = s.l3 /\ u.l4 = s.l4 /\ u.gtpu = s.gtpu /\ u.on = On /\ u.vary = V /\ u.flen = "Fixed"
    BY <2>1 DEF Writes, Alike, Short
  <2>3. HasGtpu(u)
    BY <1>3, <2>2 DEF HasGtpu, IsOn
  <2>4. u.on \cap {"udp_length_override", "udp_checksum_override", "dns_enabled", "dhcp_enabled"} = {}
    BY <2>2
  <2>5. PortFlags \subseteq u.on
    BY <2>2 DEF PortFlags
  <2>6. V \cap (L4PortModes \cup UdpModes \cup DnsModes \cup DhcpModes) = {} /\ V \cap closed = {} /\ V \cap other = {}
    <3> HIDE DEF closed, other
    <3> QED OBVIOUS
  <2>7. ~Varies(u, L4PortModes \cup UdpModes \cup DnsModes \cup DhcpModes)
    BY <2>2, <2>6 DEF Varies
  <2>8. \A f \in GtpuFlags : IsOn(u, f) = IsOn(s, f)
    BY <2>2 DEF IsOn, GtpuFlags
  <2>9. /\ ~IsOn(u, "gtpu_sequence_enabled") => ~Varies(u, {"gtpu_sequence"})
        /\ ~IsOn(u, "gtpu_npdu_enabled") => ~Varies(u, {"gtpu_npdu"})
        /\ ~IsOn(u, "gtpu_extension_enabled") => ~Varies(u, {"gtpu_extension_udp_port"})
    <3>1. /\ ~IsOn(s, "gtpu_sequence_enabled") => "gtpu_sequence" \in closed
          /\ ~IsOn(s, "gtpu_npdu_enabled") => "gtpu_npdu" \in closed
          /\ ~IsOn(s, "gtpu_extension_enabled") => "gtpu_extension_udp_port" \in closed
      OBVIOUS
    <3> HIDE DEF closed, V
    <3> QED BY <2>2, <2>6, <2>8, <3>1 DEF Varies, GtpuFlags
  <2>10. ~Varies(u, OtherVersion(u.gtpu, GtpuInner4Modes, GtpuInner6Modes))
    BY <2>2, <2>6 DEF Varies
  <2>11. GtpuSettled(u) /\ GtpuPortsSettled(u)
    BY <2>1, <2>2, <2>3, <2>4, <2>5, <2>7, <2>9, <2>10 DEF GtpuSettled, GtpuPortsSettled
  <2> QED BY <2>11 DEF u
<1>4. CASE ~HasGtpu(s)
  <2> DEFINE v == [s EXCEPT !.gtpu = "IPv4"]
  <2>1. v \in Stream /\ v.l3 = s.l3 /\ v.l4 = s.l4 /\ v.gtpu = "IPv4" /\ v.on = s.on
    BY DEF Stream, Versions
  <2>2. u = Drop(v, GtpuFlags, GtpuModes)
    BY <1>2, <1>4
  <2> HIDE DEF v
  <2>3. Writes(v, u, v.on \ GtpuFlags, v.vary \ GtpuModes)
    BY <2>1, <2>2, WriteSelf, WriteSteps
  <2>4. u.l3 = s.l3 /\ u.l4 = s.l4 /\ u.gtpu = "IPv4" /\ u.on = s.on \ GtpuFlags /\ u.vary = v.vary \ GtpuModes
    BY <2>1, <2>3 DEF Writes, Alike
  <2>5. ~HasGtpu(u)
    BY <1>4, <2>4 DEF HasGtpu, IsOn
  <2>6. GtpuSettled(u) /\ GtpuPortsSettled(u)
    BY <2>4, <2>5 DEF GtpuSettled, GtpuPortsSettled, Varies
  <2> QED BY <2>6 DEF u
<1> QED BY <1>3, <1>4

LEMMA SettlesVxlan ==
  ASSUME NEW s \in Stream
  PROVE  VxlanSettled(NormVxlan(s))
<1> DEFINE other == OtherVersion(s.vxlan, VxlanInner4Modes, VxlanInner6Modes)
           F == L4PortModes \cup {"udp_length"} \cup other
           outer == FixLength(Fix(s, F))
           plain == Fix([s EXCEPT !.vxlan = "IPv4"], VxlanModes)
           vxlan == CASE ~IsOn(s, "vxlan_enabled") -> plain
                      [] IsOn(s, "vxlan_enabled") /\ ~IsOn(s, "bytes") -> Raised(outer)
                      [] OTHER -> outer
           u == NormVxlan(s)
<1>1. u = IF SupportsVariableLength(vxlan) THEN vxlan ELSE FixLength(vxlan)
  BY DEF NormVxlan
<1>2. Writes(s, outer, s.on, s.vary \ F) /\ Short(outer)
  <2>1. Writes(s, Fix(s, F), s.on, s.vary \ F)
    BY WriteSelf, WriteSteps
  <2> HIDE DEF F
  <2>2. Fix(s, F) \in Stream
    BY <2>1 DEF Writes, Alike
  <2> QED BY <2>1, <2>2, WriteSteps, ShortSteps
<1>3. F = L4PortModes \cup {"udp_length"} \cup OtherVersion(s.vxlan, VxlanInner4Modes, VxlanInner6Modes)
  OBVIOUS
<1> HIDE DEF outer, plain, F, u
<1>4. CASE IsOn(s, "vxlan_enabled")
  <2>1. Writes(s, vxlan, s.on, s.vary \ F) /\ Short(vxlan)
    BY <1>2, <1>4, WriteSteps, ShortSteps
  <2>2. ~IsOn(s, "bytes") => Roomy(vxlan)
    BY <1>2, <1>4, RaisedRoomy DEF Short
  <2> HIDE DEF vxlan
  <2>3. u = vxlan
    BY <1>1, <2>1, NothingToDo DEF Short
  <2>4. u.on = s.on /\ u.vary = s.vary \ F /\ u.flen = "Fixed" /\ u.vxlan = s.vxlan
    BY <2>1, <2>3 DEF Writes, Alike, Short
  <2>5. ~Varies(u, L4PortModes \cup {"udp_length"} \cup OtherVersion(u.vxlan, VxlanInner4Modes, VxlanInner6Modes))
    BY <1>3, <2>4 DEF Varies
  <2>6. VxlanSettled(u)
    BY <1>4, <2>2, <2>3, <2>4, <2>5 DEF VxlanSettled, IsOn
  <2> QED BY <2>6 DEF u
<1>5. CASE ~IsOn(s, "vxlan_enabled")
  <2> DEFINE v == [s EXCEPT !.vxlan = "IPv4"]
  <2>1. v \in Stream /\ v.vxlan = "IPv4" /\ v.on = s.on
    BY DEF Stream, Versions
  <2>2. vxlan = Fix(v, VxlanModes)
    BY <1>5 DEF plain
  <2> HIDE DEF v, vxlan
  <2>3. Writes(v, vxlan, v.on, v.vary \ VxlanModes)
    BY <2>1, <2>2, WriteSelf, WriteSteps
  <2>4. /\ vxlan \in Stream /\ vxlan.vxlan = "IPv4" /\ vxlan.on = s.on /\ ~Varies(vxlan, VxlanModes)
    BY <2>1, <2>3 DEF Writes, Alike, Varies
  <2>5. ASSUME NEW w, w \in {vxlan, FixLength(vxlan)} PROVE w.vxlan = "IPv4" /\ w.on = s.on /\ ~Varies(w, VxlanModes)
                                                           /\ SupportsVariableLength(w) = SupportsVariableLength(vxlan)
    <3>1. Writes(vxlan, FixLength(vxlan), vxlan.on, vxlan.vary)
      BY <2>4, WriteSelf, WriteSteps
    <3>2. w.vxlan = vxlan.vxlan /\ w.on = vxlan.on /\ w.vary = vxlan.vary /\ w.l4 = vxlan.l4
      BY <2>5, <3>1 DEF Writes, Alike
    <3> QED BY <2>4, <3>2 DEF Varies, SupportsVariableLength, Tunnel, IsOn
  <2>6. FixLength(vxlan).flen = "Fixed"
    BY <2>4, Sizes
  <2>7. VxlanSettled(u)
    BY <1>1, <1>5, <2>5, <2>6 DEF VxlanSettled, IsOn
  <2> QED BY <2>7 DEF u
<1> QED BY <1>4, <1>5

LEMMA SettlesPorts ==
  ASSUME NEW s \in Stream
  PROVE  PortsSettled(NormPorts(s))
<1> DEFINE l4 == IF s.l4 = "None" THEN Fix(s, {"udp_length"}) ELSE s
           u == NormPorts(s)
<1>1. CASE s.l4 = "None"
  <2>1. Writes(s, u, s.on \ PortFlags, (s.vary \ {"udp_length"}) \ L4PortModes)
    <3>1. Writes(s, Fix(s, {"udp_length"}), s.on, s.vary \ {"udp_length"})
      BY WriteSelf, WriteSteps
    <3>2. u = Drop(Fix(s, {"udp_length"}), PortFlags, L4PortModes)
      BY <1>1 DEF NormPorts, HasPorts, PortFlags
    <3> QED BY <3>1, <3>2, WriteSteps
  <2> HIDE DEF u
  <2>2. PortsSettled(u)
    BY <1>1, <2>1 DEF PortsSettled, Writes, Alike, Varies
  <2> QED BY <2>2 DEF u
<1>2. CASE s.l4 # "None" /\ ~HasPorts(s)
  <2>1. Writes(s, u, s.on \ PortFlags, s.vary \ L4PortModes)
    <3>1. u = Drop(s, PortFlags, L4PortModes)
      BY <1>2 DEF NormPorts, PortFlags
    <3> QED BY <3>1, WriteSelf, WriteSteps
  <2> HIDE DEF u
  <2>2. PortsSettled(u)
    BY <1>2, <2>1 DEF PortsSettled, Writes, Alike, Varies
  <2> QED BY <2>2 DEF u
<1>3. CASE HasPorts(s)
  <2>1. s.l4 # "None" /\ u = s
    BY <1>3 DEF HasPorts, NormPorts
  <2> QED BY <1>3, <2>1 DEF PortsSettled
<1> QED BY <1>1, <1>2, <1>3

LEMMA SettlesUdp ==
  ASSUME NEW s \in Stream
  PROVE  UdpSettled(NormUdp(s))
<1> DEFINE udp == IF s.l4 = "UDP" THEN s
                  ELSE NoDns(NoDhcp(Drop(s, {"udp_length_override", "udp_checksum_override"}, {"udp_checksum"})))
           dns == IF Tunnel(s) THEN NoDns(udp) ELSE udp
           dhcp == IF IsOn(dns, "dhcp_enabled") /\ HasDhcp(dns) THEN dns ELSE NoDhcp(dns)
           u == NormUdp(s)
\* What is left out is left out for good.
<1> DEFINE Less(t, w) == Writes(s, w, w.on, w.vary) /\ w.on \subseteq t.on /\ w.vary \subseteq t.vary
                           /\ w.on \cap TunnelFlags = t.on \cap TunnelFlags
<1>1. ASSUME NEW t, Writes(s, t, t.on, t.vary)
      PROVE  /\ Less(t, NoDns(t)) /\ ~IsOn(NoDns(t), "dns_enabled") /\ ~Varies(NoDns(t), DnsModes)
             /\ Less(t, NoDhcp(t)) /\ ~IsOn(NoDhcp(t), "dhcp_enabled") /\ ~Varies(NoDhcp(t), DhcpModes)
             /\ NoDns(t).on = t.on \ {"dns_enabled"} /\ NoDhcp(t).on = t.on \ {"dhcp_enabled"}
  <2>1. Writes(s, NoDns(t), t.on \ {"dns_enabled"}, t.vary \ DnsModes)
    BY <1>1, WriteSteps DEF NoDns
  <2>2. Writes(s, NoDhcp(t), t.on \ {"dhcp_enabled"}, t.vary \ DhcpModes)
    BY <1>1, WriteSteps DEF NoDhcp
  <2> QED BY <2>1, <2>2 DEF Writes, IsOn, Varies, TunnelFlags
<1>2. /\ Writes(s, udp, udp.on, udp.vary) /\ udp.on \cap TunnelFlags = s.on \cap TunnelFlags
      /\ s.l4 # "UDP" =>
           /\ udp.on \cap (UdpFlags \cup MessageFlags) = {}
           /\ ~Varies(udp, {"udp_checksum"}) /\ ~Varies(udp, DnsModes) /\ ~Varies(udp, DhcpModes)
  <2>1. CASE s.l4 = "UDP"
    BY <2>1, WriteSelf
  <2>2. CASE s.l4 # "UDP"
    <3> DEFINE a == Drop(s, {"udp_length_override", "udp_checksum_override"}, {"udp_checksum"})
    <3>1. Writes(s, a, s.on \ UdpFlags, s.vary \ {"udp_checksum"})
      BY WriteSelf, WriteSteps DEF UdpFlags
    <3> HIDE DEF a
    <3>2. Writes(s, NoDhcp(a), (s.on \ UdpFlags) \ {"dhcp_enabled"}, (s.vary \ {"udp_checksum"}) \ DhcpModes)
      BY <3>1, WriteSteps DEF NoDhcp
    <3>3. Writes(s, NoDns(NoDhcp(a)), ((s.on \ UdpFlags) \ {"dhcp_enabled"}) \ {"dns_enabled"},
                 ((s.vary \ {"udp_checksum"}) \ DhcpModes) \ DnsModes)
      BY <3>2, WriteSteps DEF NoDns
    <3>4. udp = NoDns(NoDhcp(a))
      BY <2>2 DEF a
    <3> HIDE DEF udp
    <3>5. /\ Writes(s, udp, udp.on, udp.vary) /\ udp.on = ((s.on \ UdpFlags) \ {"dhcp_enabled"}) \ {"dns_enabled"}
          /\ udp.vary = ((s.vary \ {"udp_checksum"}) \ DhcpModes) \ DnsModes
      BY <3>3, <3>4 DEF Writes
    <3>6. TunnelFlags \cap (UdpFlags \cup MessageFlags) = {}
      BY DEF TunnelFlags, UdpFlags, MessageFlags
    <3> QED BY <3>5, <3>6 DEF Varies, MessageFlags
  <2> QED BY <2>1, <2>2
<1> HIDE DEF udp
<1>3. /\ Less(udp, dns) /\ (Tunnel(s) => ~IsOn(dns, "dns_enabled") /\ ~Varies(dns, DnsModes))
  BY <1>1, <1>2
<1> HIDE DEF dns
<1>4. /\ Less(dns, dhcp)
      /\ IsOn(dhcp, "dhcp_enabled") => HasDhcp(dhcp)
      /\ ~IsOn(dhcp, "dhcp_enabled") => ~Varies(dhcp, DhcpModes)
  BY <1>1, <1>3
<1>5. u = IF IsOn(dhcp, "dns_enabled") /\ ~IsOn(dhcp, "dhcp_enabled") THEN dhcp
          ELSE TurnOff(NoDns(dhcp), {"dns_answer_enabled"})
  BY DEF NormUdp, dhcp, dns, udp
<1> HIDE DEF dhcp, u
<1>6. /\ Less(dhcp, u)
      /\ IsOn(u, "dns_enabled") => u = dhcp /\ ~IsOn(u, "dhcp_enabled")
      /\ ~IsOn(u, "dns_enabled") => ~Varies(u, DnsModes) /\ ~IsOn(u, "dns_answer_enabled")
      /\ IsOn(u, "dhcp_enabled") = IsOn(dhcp, "dhcp_enabled")
  <2> DEFINE n == NoDns(dhcp)
             o == TurnOff(n, {"dns_answer_enabled"})
  <2>1. Less(dhcp, n) /\ ~IsOn(n, "dns_enabled") /\ ~Varies(n, DnsModes) /\ n.on = dhcp.on \ {"dns_enabled"}
    BY <1>1, <1>4
  <2> HIDE DEF n
  <2>2. Writes(s, o, n.on \ {"dns_answer_enabled"}, n.vary)
    BY <2>1, WriteSteps
  <2>3. o.on = n.on \ {"dns_answer_enabled"} /\ o.vary = n.vary /\ Writes(s, o, o.on, o.vary)
    BY <2>2 DEF Writes
  <2> HIDE DEF o
  <2>4. /\ Less(dhcp, o) /\ ~IsOn(o, "dns_enabled") /\ ~Varies(o, DnsModes) /\ ~IsOn(o, "dns_answer_enabled")
        /\ IsOn(o, "dhcp_enabled") = IsOn(dhcp, "dhcp_enabled")
    BY <2>1, <2>3 DEF IsOn, Varies, TunnelFlags
  <2>5. Less(dhcp, dhcp)
    BY <1>4
  <2>6. u = IF IsOn(dhcp, "dns_enabled") /\ ~IsOn(dhcp, "dhcp_enabled") THEN dhcp ELSE o
    BY <1>5 DEF o, n
  <2> QED BY <2>4, <2>5, <2>6
<1>7. u.l3 = s.l3 /\ u.l4 = s.l4 /\ dhcp.l3 = s.l3 /\ dhcp.l4 = s.l4 /\ u.on \subseteq udp.on /\ u.vary \subseteq udp.vary
      /\ u.on \subseteq dns.on /\ u.vary \subseteq dhcp.vary
  BY <1>3, <1>4, <1>6 DEF Writes, Alike
<1>8. Tunnel(u) = Tunnel(s) /\ Tunnel(dhcp) = Tunnel(s)
  <2>1. u.on \cap TunnelFlags = s.on \cap TunnelFlags /\ dhcp.on \cap TunnelFlags = s.on \cap TunnelFlags
    BY <1>2, <1>3, <1>4, <1>6
  <2> QED BY <2>1 DEF Tunnel, IsOn, TunnelFlags
<1>9. s.l4 # "UDP" => u.on \cap UdpFlags = {} /\ ~Varies(u, {"udp_checksum"})
  BY <1>2, <1>7 DEF Varies
<1>10. IsOn(u, "dns_enabled") => HasDns(u) /\ ~IsOn(u, "dhcp_enabled")
  <2>1. IsOn(u, "dns_enabled") => s.l4 = "UDP"
    BY <1>2, <1>7 DEF IsOn, MessageFlags
  <2>2. IsOn(u, "dns_enabled") => ~Tunnel(s)
    BY <1>3, <1>7 DEF IsOn
  <2> QED BY <1>6, <1>7, <1>8, <2>1, <2>2 DEF HasDns
<1>11. IsOn(u, "dhcp_enabled") => HasDhcp(u)
  BY <1>4, <1>6, <1>7, <1>8 DEF HasDhcp
<1>12. ~IsOn(u, "dhcp_enabled") => ~Varies(u, DhcpModes)
  BY <1>4, <1>6, <1>7 DEF Varies
<1>13. UdpSettled(u)
  BY <1>6, <1>7, <1>9, <1>10, <1>11, <1>12 DEF UdpSettled
<1> QED BY <1>13 DEF u

LEMMA SettlesDns ==
  ASSUME NEW s \in Stream, OneTunnel(s)
  PROVE  DnsSettled(NormDns(s))
<1> SUFFICES ASSUME IsOn(s, "dns_enabled") PROVE DnsSettled(NormDns(s))
  BY DEF NormDns, DnsSettled
<1> DEFINE dns == TurnOn(TurnOff(s, {"udp_length_override"}), {"payload_enabled"})
           answer == IF IsOn(s, "dns_answer_enabled") THEN dns ELSE Fix(dns, DnsAnswerModes)
           On == (s.on \ {"udp_length_override"}) \cup {"payload_enabled"}
           V == IF IsOn(s, "dns_answer_enabled") THEN s.vary ELSE s.vary \ DnsAnswerModes
           raised == Raised(answer)
           u == NormDns(s)
<1>1. Writes(s, answer, On, V)
  <2>1. Writes(s, TurnOff(s, {"udp_length_override"}), s.on \ {"udp_length_override"}, s.vary)
    BY WriteSelf, WriteSteps
  <2>2. Writes(s, dns, On, s.vary)
    <3>1. {"payload_enabled"} \subseteq Flags
      BY DEF Flags
    <3> QED BY <2>1, <3>1, WriteSteps
  <2> HIDE DEF dns, On
  <2> QED BY <2>2, WriteSteps
<1>2. u = Unchecked(raised, DnsModes)
  BY DEF NormDns
<1> HIDE DEF answer
<1>3. Writes(s, raised, On, V) /\ answer \in Stream
  BY <1>1, WriteSteps DEF Writes, Alike
<1>4. Roomy(raised)
  BY <1>3, RaisedRoomy
<1> HIDE DEF raised, u
<1>5. raised \in Stream /\ OneTunnel(raised)
  <2>1. raised \in Stream /\ raised.l3 = s.l3 /\ raised.l4 = s.l4 /\ raised.on = On /\ raised.vary \subseteq s.vary
    BY <1>3 DEF Writes, Alike
  <2>2. IsOn(raised, "vxlan_enabled") = IsOn(s, "vxlan_enabled") /\ IsOn(raised, "gtpu_enabled") = IsOn(s, "gtpu_enabled")
    BY <2>1 DEF IsOn
  <2> QED BY <2>1, <2>2 DEF OneTunnel, Tunnel, Varies
<1>6. /\ Roomy(u) /\ u.vary = V /\ u.on \subseteq On /\ On \ {"udp_checksum_override"} \subseteq u.on
      /\ Varies(u, DnsModes) => ~IsOn(u, "udp_checksum_override")
  <2> DEFINE v == TurnOff(raised, {"udp_checksum_override"})
  <2>1. Writes(s, v, On \ {"udp_checksum_override"}, V)
    BY <1>3, WriteSteps
  <2>2. Roomy(v)
    <3>1. After(raised, v, {"udp_checksum_override"})
      BY <1>5, AfterSelf, AfterSteps
    <3>2. {"udp_checksum_override"} \cap LongSwitches = {} /\ {"udp_checksum_override"} \cap MessageFlags = {}
      BY DEF LongSwitches, TunnelFlags, MessageFlags
    <3> HIDE DEF v
    <3> QED BY <1>4, <1>5, <3>1, <3>2, RoomyAfter
  <2>3. u = IF Varies(raised, DnsModes) THEN v ELSE raised
    BY <1>2 DEF Unchecked
  <2> HIDE DEF v
  <2> QED BY <1>3, <1>4, <2>1, <2>2, <2>3 DEF Writes, IsOn
<1>7. ~IsOn(u, "udp_length_override") /\ IsOn(u, "payload_enabled")
      /\ IsOn(u, "dns_answer_enabled") = IsOn(s, "dns_answer_enabled")
  <2>1. "udp_length_override" \notin On /\ "payload_enabled" \in On
        /\ ("dns_answer_enabled" \in On <=> "dns_answer_enabled" \in s.on)
    OBVIOUS
  <2> HIDE DEF On
  <2> QED BY <1>6, <2>1 DEF IsOn
<1>8. ~IsOn(u, "dns_answer_enabled") => ~Varies(u, DnsAnswerModes)
  BY <1>6, <1>7 DEF Varies
<1>9. DnsSettled(u)
  BY <1>6, <1>7, <1>8 DEF DnsSettled
<1> QED BY <1>9 DEF u

LEMMA SettlesDhcp ==
  ASSUME NEW s \in Stream, OneTunnel(s)
  PROVE  DhcpSettled(NormDhcp(s))
<1> SUFFICES ASSUME IsOn(s, "dhcp_enabled") PROVE DhcpSettled(NormDhcp(s))
  BY DEF NormDhcp, DhcpSettled
<1> DEFINE N == {"payload_enabled", "l4_src_port_override", "l4_dst_port_override"}
           off == Drop(s, {"udp_length_override"}, {"udp_length"})
           dhcp == TurnOn(off, N)
           options == IF IsOn(s, "dhcp_option_values") THEN dhcp ELSE Fix(dhcp, DhcpOptionModes)
           On == (s.on \ {"udp_length_override"}) \cup N
           V == IF IsOn(s, "dhcp_option_values") THEN s.vary \ {"udp_length"} ELSE (s.vary \ {"udp_length"}) \ DhcpOptionModes
           raised == Raised(options)
           u == NormDhcp(s)
<1>1. Writes(s, options, On, V)
  <2>1. Writes(s, off, s.on \ {"udp_length_override"}, s.vary \ {"udp_length"})
    BY WriteSelf, WriteSteps
  <2> HIDE DEF off
  <2>2. Writes(s, dhcp, On, s.vary \ {"udp_length"})
    <3>1. N \subseteq Flags
      BY DEF Flags
    <3> QED BY <2>1, <3>1, WriteSteps
  <2> HIDE DEF dhcp, On
  <2> QED BY <2>2, WriteSteps
<1>2. u = Unchecked(raised, DhcpModes)
  BY DEF NormDhcp
<1> HIDE DEF options
<1>3. Writes(s, raised, On, V) /\ options \in Stream
  BY <1>1, WriteSteps DEF Writes, Alike
<1>4. Roomy(raised)
  BY <1>3, RaisedRoomy
<1> HIDE DEF raised, u
<1>5. raised \in Stream /\ OneTunnel(raised)
  <2>1. raised \in Stream /\ raised.l3 = s.l3 /\ raised.l4 = s.l4 /\ raised.on = On /\ raised.vary \subseteq s.vary
    BY <1>3 DEF Writes, Alike
  <2>2. IsOn(raised, "vxlan_enabled") = IsOn(s, "vxlan_enabled") /\ IsOn(raised, "gtpu_enabled") = IsOn(s, "gtpu_enabled")
    BY <2>1 DEF IsOn
  <2> QED BY <2>1, <2>2 DEF OneTunnel, Tunnel, Varies
<1>6. /\ Roomy(u) /\ u.vary = V /\ u.on \subseteq On /\ On \ {"udp_checksum_override"} \subseteq u.on
      /\ Varies(u, DhcpModes) => ~IsOn(u, "udp_checksum_override")
  <2> DEFINE v == TurnOff(raised, {"udp_checksum_override"})
  <2>1. Writes(s, v, On \ {"udp_checksum_override"}, V)
    BY <1>3, WriteSteps
  <2>2. Roomy(v)
    <3>1. After(raised, v, {"udp_checksum_override"})
      BY <1>5, AfterSelf, AfterSteps
    <3>2. {"udp_checksum_override"} \cap LongSwitches = {} /\ {"udp_checksum_override"} \cap MessageFlags = {}
      BY DEF LongSwitches, TunnelFlags, MessageFlags
    <3> HIDE DEF v
    <3> QED BY <1>4, <1>5, <3>1, <3>2, RoomyAfter
  <2>3. u = IF Varies(raised, DhcpModes) THEN v ELSE raised
    BY <1>2 DEF Unchecked
  <2> HIDE DEF v
  <2> QED BY <1>3, <1>4, <2>1, <2>2, <2>3 DEF Writes, IsOn
<1>7. ~IsOn(u, "udp_length_override") /\ IsOn(u, "payload_enabled") /\ PortFlags \subseteq u.on
      /\ IsOn(u, "dhcp_option_values") = IsOn(s, "dhcp_option_values")
  <2>1. "udp_length_override" \notin On /\ "payload_enabled" \in On /\ PortFlags \subseteq On \ {"udp_checksum_override"}
        /\ ("dhcp_option_values" \in On <=> "dhcp_option_values" \in s.on)
    BY DEF PortFlags
  <2> HIDE DEF On
  <2> QED BY <1>6, <2>1 DEF IsOn
<1>8. ~Varies(u, {"udp_length"}) /\ (~IsOn(u, "dhcp_option_values") => ~Varies(u, DhcpOptionModes))
  BY <1>6, <1>7 DEF Varies
<1>9. DhcpSettled(u)
  BY <1>6, <1>7, <1>8 DEF DhcpSettled
<1> QED BY <1>9 DEF u

LEMMA SettlesTcp ==
  ASSUME NEW s \in Stream
  PROVE  TcpSettled(NormTcp(s))
<1> DEFINE A == IF IsOn(s, "tcp_option_window_scale_enabled") THEN {} ELSE {"tcp_option_window_scale"}
           B == IF IsOn(s, "tcp_option_sack_blocks_enabled") THEN {}
                ELSE {"tcp_option_sack_left_edge", "tcp_option_sack_right_edge"}
           C == IF IsOn(s, "tcp_option_timestamp_enabled") THEN {}
                ELSE {"tcp_option_timestamp_value", "tcp_option_timestamp_echo"}
           scale == Without(s, "tcp_option_window_scale_enabled", {"tcp_option_window_scale"})
           sack == Without(scale, "tcp_option_sack_blocks_enabled", {"tcp_option_sack_left_edge", "tcp_option_sack_right_edge"})
           stamp == Without(sack, "tcp_option_timestamp_enabled", {"tcp_option_timestamp_value", "tcp_option_timestamp_echo"})
           u == NormTcp(s)
<1>0. \A t, V, f, F : Writes(s, t, s.on, V) =>
        Writes(s, Without(t, f, F), s.on, V \ (IF f \in s.on THEN {} ELSE F))
  <2> SUFFICES ASSUME NEW t, NEW V, NEW f, NEW F, Writes(s, t, s.on, V)
               PROVE  Writes(s, Without(t, f, F), s.on, V \ (IF f \in s.on THEN {} ELSE F))
    OBVIOUS
  <2>1. IsOn(t, f) <=> f \in s.on
    BY DEF Writes, IsOn
  <2>2. CASE f \in s.on
    <3>1. V \ {} = V
      OBVIOUS
    <3> QED BY <2>1, <2>2, <3>1 DEF Without
  <2>3. CASE f \notin s.on
    BY <2>1, <2>3, WriteSteps DEF Without
  <2> QED BY <2>2, <2>3
<1>1. Writes(s, scale, s.on, s.vary \ A)
  BY <1>0, WriteSelf DEF IsOn
<1> HIDE DEF scale, A
<1>2. Writes(s, sack, s.on, (s.vary \ A) \ B)
  BY <1>0, <1>1 DEF IsOn
<1> HIDE DEF sack, B
<1>3. Writes(s, stamp, s.on, ((s.vary \ A) \ B) \ C)
  BY <1>0, <1>2 DEF IsOn
<1> HIDE DEF stamp, C
<1>4. CASE s.l4 = "TCP"
  <2>1. u = stamp
    BY <1>4 DEF NormTcp, stamp, sack, scale
  <2> HIDE DEF u
  <2>2. u.l4 = "TCP" /\ u.on = s.on /\ u.vary = ((s.vary \ A) \ B) \ C
    BY <1>3, <1>4, <2>1 DEF Writes, Alike
  <2>3. TcpSettled(u)
    BY <2>2 DEF TcpSettled, IsOn, Varies, A, B, C
  <2> QED BY <2>3 DEF u
<1>5. CASE s.l4 # "TCP"
  <2>1. Writes(s, u, s.on \ TcpOptionFlags, s.vary \ TcpOptionModes)
    BY <1>5, WriteSelf, WriteSteps DEF NormTcp
  <2> HIDE DEF u
  <2>2. TcpSettled(u)
    BY <1>5, <2>1 DEF TcpSettled, Writes, Alike, Varies
  <2> QED BY <2>2 DEF u
<1> QED BY <1>4, <1>5

LEMMA SettlesSctp ==
  ASSUME NEW s \in Stream
  PROVE  SctpSettled(NormSctp(s))
<1> DEFINE zero == TurnOn(s, {"sctp_checksum_override", "sctp_zero"})
           u == NormSctp(s)
<1>1. Writes(s, zero, s.on \cup {"sctp_checksum_override", "sctp_zero"}, s.vary)
  <2>1. {"sctp_checksum_override", "sctp_zero"} \subseteq Flags
    BY DEF Flags
  <2> QED BY <2>1, WriteSelf, WriteSteps
<1>2. Writes(s, Raised(zero), s.on \cup {"sctp_checksum_override", "sctp_zero"}, s.vary) /\ Roomy(Raised(zero))
  BY <1>1, WriteSteps, RaisedRoomy DEF Writes, Alike
<1>3. s.l4 # "SCTP" => Writes(s, u, s.on \ {"sctp_checksum_override"}, s.vary \ SctpModes)
  BY WriteSelf, WriteSteps DEF NormSctp
<1>4. /\ s.l4 = "SCTP" /\ Varies(s, SctpModes) => u = Raised(zero)
      /\ s.l4 = "SCTP" /\ ~Varies(s, SctpModes) /\ Varies(s, L4PortModes) => u = zero
      /\ s.l4 = "SCTP" /\ ~Varies(s, SctpModes) /\ ~Varies(s, L4PortModes) => u = s
  BY DEF NormSctp
<1> HIDE DEF zero, u
<1>5. CASE s.l4 # "SCTP"
  <2>1. SctpSettled(u)
    BY <1>3, <1>5 DEF SctpSettled, Writes, Alike, IsOn, Varies
  <2> QED BY <2>1 DEF u
<1>6. CASE s.l4 = "SCTP" /\ Varies(s, SctpModes)
  <2>1. u.l4 = "SCTP" /\ u.on = s.on \cup {"sctp_checksum_override", "sctp_zero"} /\ Roomy(u)
    BY <1>2, <1>4, <1>6 DEF Writes, Alike
  <2>2. SctpSettled(u)
    BY <2>1 DEF SctpSettled
  <2> QED BY <2>2 DEF u
<1>7. CASE s.l4 = "SCTP" /\ ~Varies(s, SctpModes) /\ Varies(s, L4PortModes)
  <2>1. u.l4 = "SCTP" /\ u.on = s.on \cup {"sctp_checksum_override", "sctp_zero"} /\ ~Varies(u, SctpModes)
    BY <1>1, <1>4, <1>7 DEF Writes, Alike, Varies
  <2>2. SctpSettled(u)
    BY <2>1 DEF SctpSettled
  <2> QED BY <2>2 DEF u
<1>8. CASE s.l4 = "SCTP" /\ ~Varies(s, SctpModes) /\ ~Varies(s, L4PortModes)
  <2>1. ~Varies(s, SctpModes \cup L4PortModes)
    BY <1>8 DEF Varies
  <2>2. SctpSettled(u)
    BY <1>4, <1>8, <2>1 DEF SctpSettled
  <2> QED BY <2>2 DEF u
<1> QED BY <1>5, <1>6, <1>7, <1>8

LEMMA SettlesIcmp ==
  ASSUME NEW s \in Stream
  PROVE  IcmpSettled(NormIcmp(s))
<1> DEFINE I == {"icmp_checksum_override"}
           icmp == IF s.l4 = "ICMP" THEN s ELSE TurnOff(s, I)
           echo == IF Icmpv6Echo(s) THEN icmp ELSE Fix(icmp, IcmpModes)
           checked == IF Varies(echo, IcmpModes) THEN TurnOff(echo, I) ELSE echo
           fixed == FixLength(Fix(checked, Ipv6AddressModes))
           u == NormIcmp(s)
<1>1. /\ Writes(s, icmp, icmp.on, s.vary) /\ (s.l4 # "ICMP" => ~IsOn(icmp, "icmp_checksum_override"))
  <2>1. Writes(s, TurnOff(s, I), s.on \ I, s.vary)
    BY WriteSelf, WriteSteps
  <2> QED BY <2>1, WriteSelf DEF Writes, IsOn
<1> HIDE DEF icmp
<1>2. Writes(s, echo, icmp.on, echo.vary) /\ (~Icmpv6Echo(s) => ~Varies(echo, IcmpModes))
  <2>1. Writes(s, Fix(icmp, IcmpModes), icmp.on, s.vary \ IcmpModes)
    BY <1>1, WriteSteps
  <2> QED BY <1>1, <2>1 DEF Writes, Varies
<1> HIDE DEF echo
<1>3. /\ Writes(s, checked, checked.on, echo.vary) /\ checked.on \subseteq icmp.on
      /\ Varies(checked, IcmpModes) => ~IsOn(checked, "icmp_checksum_override")
  <2>1. Writes(s, TurnOff(echo, I), icmp.on \ I, echo.vary)
    BY <1>2, WriteSteps
  <2>2. CASE Varies(echo, IcmpModes)
    BY <2>1, <2>2 DEF Writes, IsOn
  <2>3. CASE ~Varies(echo, IcmpModes)
    BY <1>2, <2>3 DEF Writes
  <2> QED BY <2>2, <2>3
<1> HIDE DEF checked
<1>4. Writes(s, fixed, checked.on, echo.vary \ Ipv6AddressModes) /\ Short(fixed)
  <2>1. Writes(s, Fix(checked, Ipv6AddressModes), checked.on, echo.vary \ Ipv6AddressModes)
    BY <1>3, WriteSteps
  <2> QED BY <2>1, WriteSteps, ShortSteps DEF Writes, Alike
<1>5. /\ ~Icmpv6(s) => u = checked
      /\ Icmpv6Control(s) => u = Raised(Fix(fixed, {"ipv6_hop_limit"}))
      /\ Icmpv6(s) /\ ~Icmpv6Control(s) => u = fixed
  BY DEF NormIcmp, Icmpv6Control, fixed, checked, echo, icmp
<1> HIDE DEF fixed, u
<1>6. LET w == Raised(Fix(fixed, {"ipv6_hop_limit"}))
      IN Writes(s, w, checked.on, (echo.vary \ Ipv6AddressModes) \ {"ipv6_hop_limit"}) /\ Short(w) /\ Roomy(w)
  <2>1. Writes(s, Fix(fixed, {"ipv6_hop_limit"}), checked.on, (echo.vary \ Ipv6AddressModes) \ {"ipv6_hop_limit"})
        /\ Short(Fix(fixed, {"ipv6_hop_limit"}))
    BY <1>4, WriteSteps, ShortSteps
  <2> QED BY <2>1, WriteSteps, ShortSteps, RaisedRoomy DEF Short
<1>7. /\ Writes(s, u, checked.on, u.vary) /\ u.vary \subseteq echo.vary
      /\ Icmpv6(s) => u.flen = "Fixed" /\ ~Varies(u, Ipv6AddressModes)
      /\ Icmpv6Control(s) => ~Varies(u, {"ipv6_hop_limit"}) /\ Roomy(u)
  <2>1. Icmpv6Control(s) => Icmpv6(s)
    BY DEF Icmpv6Control
  <2>2. CASE ~Icmpv6(s)
    BY <1>3, <1>5, <2>1, <2>2 DEF Writes
  <2>3. CASE Icmpv6Control(s)
    BY <1>5, <1>6, <2>3 DEF Writes, Varies, Short
  <2>4. CASE Icmpv6(s) /\ ~Icmpv6Control(s)
    BY <1>4, <1>5, <2>4 DEF Writes, Varies, Short
  <2> QED BY <2>2, <2>3, <2>4
<1>8. u.l3 = s.l3 /\ u.l4 = s.l4 /\ u.icmp = s.icmp /\ u.on = checked.on
  BY <1>7 DEF Writes, Alike
<1>9. Icmpv6(u) = Icmpv6(s) /\ Icmpv6Echo(u) = Icmpv6Echo(s) /\ Icmpv6Control(u) = Icmpv6Control(s)
  BY <1>8 DEF Icmpv6, Icmpv6Echo, Icmpv6Control
<1>10. /\ s.l4 # "ICMP" => ~IsOn(u, "icmp_checksum_override")
       /\ ~Icmpv6Echo(s) => ~Varies(u, IcmpModes)
       /\ Varies(u, IcmpModes) => ~IsOn(u, "icmp_checksum_override")
  BY <1>1, <1>2, <1>3, <1>7, <1>8 DEF IsOn, Varies, Writes
<1>11. IcmpSettled(u)
  BY <1>7, <1>8, <1>9, <1>10 DEF IcmpSettled
<1> QED BY <1>11 DEF u
-----------------------------------------------------------------------------
(* What the stages settle together *)

LEMMA AfterMore ==
  ASSUME NEW s, NEW t, NEW X, NEW Y, After(s, t, X), X \subseteq Y
  PROVE  After(s, t, Y)
<1>1. t.on \ X = s.on \ X
  BY DEF After
<1>2. t.on \ Y = s.on \ Y
  BY <1>1
<1> QED BY <1>2 DEF After

HeaderSwitches == NetworkSwitches \cup {"vlan2_enabled", "mpls_label3_enabled"} \cup GreSwitches \cup GtpuSwitches
MessageSwitches == PortFlags \cup UdpSwitches \cup DhcpSwitches
TransportSwitches == TcpOptionFlags \cup SctpSwitches \cup {"icmp_checksum_override"}

\* What is settled by one stage and what the stages after it switch are apart.
LEMMA SwitchesApart ==
  /\ (GreSwitches \cup GtpuSwitches) \cap {"vlan_enabled", "vlan2_enabled", "mpls_enabled", "mpls_label2_enabled"} = {}
  /\ (GreSwitches \cup GtpuSwitches) \cap {"mpls_label3_enabled"} = {}
  /\ GtpuSwitches \cap (GreSwitches \cup LongSwitches) = {}
  /\ \A X \in {MessageSwitches, TransportSwitches} :
       /\ X \cap (TunnelFlags \cup LongSwitches \cup GreSwitches \cup GtpuFlags) = {}
       /\ X \cap {"vlan_enabled", "vlan2_enabled", "mpls_enabled", "mpls_label2_enabled", "mpls_label3_enabled"} = {}
  /\ (UdpSwitches \cup DnsSwitches) \cap PortFlags = {}
  /\ DhcpSwitches \cap (MessageFlags \cup TunnelFlags) = {}
  /\ DnsSwitches \cap (MessageFlags \cup TunnelFlags) = {}
  /\ TransportSwitches \cap (PortFlags \cup MessageFlags \cup {"payload_enabled", "dns_answer_enabled", "dhcp_option_values"}) = {}
  /\ (SctpSwitches \cup {"icmp_checksum_override"}) \cap (TcpOptionFlags \cup LongSwitches) = {}
  /\ {"icmp_checksum_override"} \cap SctpSwitches = {}
BY DEF GreSwitches, GtpuSwitches, LongSwitches, MessageSwitches, TransportSwitches, TunnelFlags, GtpuFlags, PortFlags, UdpSwitches,
       DhcpSwitches, DnsSwitches, UdpFlags, MessageFlags, SctpSwitches, TcpOptionFlags

LEMMA HeadersStage ==
  ASSUME NEW s \in Stream, OneTunnel(s)
  PROVE  LET r == NormGtpu(NormGre(NormMpls(NormVlan(NormNetwork(s)))))
         IN /\ After(s, r, HeaderSwitches) /\ OneTunnel(r)
            /\ NetworkSettled(r) /\ VlanSettled(r) /\ MplsSettled(r) /\ GreSettled(r) /\ GtpuSettled(r) /\ GtpuPortsSettled(r)
<1> DEFINE a == NormNetwork(s)
           b == NormVlan(a)
           c == NormMpls(b)
           d == NormGre(c)
           r == NormGtpu(d)
<1>1. After(s, a, NetworkSwitches) /\ a \in Stream /\ OneTunnel(a) /\ NetworkSettled(a)
  <2>1. After(s, a, NetworkSwitches) /\ NetworkSettled(a)
    BY AfterLink, SettlesLink
  <2> QED BY <2>1, AfterKeeps, AfterTunnel
<1> HIDE DEF a
<1>2. After(a, b, {"vlan2_enabled"}) /\ b \in Stream /\ OneTunnel(b) /\ VlanSettled(b)
  <2>1. After(a, b, {"vlan2_enabled"}) /\ VlanSettled(b)
    BY <1>1, AfterLink, SettlesLink
  <2> QED BY <1>1, <2>1, AfterKeeps, AfterTunnel
<1> HIDE DEF b
<1>3. After(b, c, {"mpls_label3_enabled"}) /\ c \in Stream /\ OneTunnel(c) /\ MplsSettled(c)
  <2>1. After(b, c, {"mpls_label3_enabled"}) /\ MplsSettled(c)
    BY <1>2, AfterLink, SettlesLink
  <2> QED BY <1>2, <2>1, AfterKeeps, AfterTunnel
<1> HIDE DEF c
<1>4. After(c, d, GreSwitches) /\ d \in Stream /\ OneTunnel(d) /\ GreSettled(d)
  <2>1. After(c, d, GreSwitches) /\ GreSettled(d)
    BY <1>3, AfterTunnels, SettlesGre
  <2> QED BY <1>3, <2>1, AfterKeeps, AfterTunnel
<1> HIDE DEF d
<1>5. After(d, r, GtpuSwitches) /\ r \in Stream /\ OneTunnel(r) /\ GtpuSettled(r) /\ GtpuPortsSettled(r)
  <2>1. After(d, r, GtpuSwitches) /\ GtpuSettled(r) /\ GtpuPortsSettled(r)
    BY <1>4, AfterTunnels, SettlesGtpu
  <2> QED BY <1>4, <2>1, AfterKeeps, AfterTunnel
<1> HIDE DEF r
<1>6. After(c, r, GreSwitches \cup GtpuSwitches)
  BY <1>3, <1>4, <1>5, AfterChain
<1>7. After(b, r, {"mpls_label3_enabled"} \cup (GreSwitches \cup GtpuSwitches))
  BY <1>2, <1>3, <1>6, AfterChain
<1>8. After(a, r, {"vlan2_enabled"} \cup ({"mpls_label3_enabled"} \cup (GreSwitches \cup GtpuSwitches)))
  BY <1>1, <1>2, <1>7, AfterChain
<1>9. After(s, r, NetworkSwitches \cup ({"vlan2_enabled"} \cup ({"mpls_label3_enabled"} \cup (GreSwitches \cup GtpuSwitches))))
  BY <1>1, <1>8, AfterChain
<1>10. After(s, r, HeaderSwitches)
  BY <1>9, AfterMore DEF HeaderSwitches
<1>11. NetworkSettled(r)
  BY <1>1, <1>8, LinkStays
<1>12. VlanSettled(r)
  <2>1. ({"mpls_label3_enabled"} \cup (GreSwitches \cup GtpuSwitches)) \cap {"vlan_enabled", "vlan2_enabled"} = {}
    BY SwitchesApart
  <2> QED BY <1>2, <1>7, <2>1, LinkStays
<1>13. MplsSettled(r)
  <2>1. (GreSwitches \cup GtpuSwitches) \cap {"mpls_enabled", "mpls_label2_enabled", "mpls_label3_enabled"} = {}
    BY SwitchesApart
  <2> QED BY <1>3, <1>6, <2>1, LinkStays
<1>14. GreSettled(r)
  BY <1>4, <1>5, SwitchesApart, GreStays
<1>15. r = NormGtpu(NormGre(NormMpls(NormVlan(NormNetwork(s)))))
  BY DEF r, d, c, b, a
<1> QED BY <1>5, <1>10, <1>11, <1>12, <1>13, <1>14, <1>15

LEMMA MessagesStage ==
  ASSUME NEW s \in Stream, OneTunnel(s), GtpuPortsSettled(s)
  PROVE  LET r == NormDhcp(NormDns(NormUdp(NormPorts(s))))
         IN /\ After(s, r, MessageSwitches) /\ OneTunnel(r)
            /\ GtpuPortsSettled(r) /\ PortsSettled(r) /\ MessagesSettled(r)
<1> DEFINE a == NormPorts(s)
           b == NormUdp(a)
           c == NormDns(b)
           r == NormDhcp(c)
<1>1. After(s, a, PortFlags) /\ a \in Stream /\ OneTunnel(a) /\ PortsSettled(a)
  <2>1. After(s, a, PortFlags) /\ PortsSettled(a)
    BY AfterUdp, SettlesPorts
  <2> QED BY <2>1, AfterKeeps, AfterTunnel
<1>2. GtpuPortsSettled(a)
  <2>1. CASE HasPorts(s)
    <3>1. a = s
      BY <2>1 DEF NormPorts, HasPorts
    <3> QED BY <3>1
  <2>2. CASE ~HasPorts(s)
    <3>1. a.l4 = s.l4
      BY <1>1 DEF After
    <3> QED BY <2>2, <3>1 DEF GtpuPortsSettled, HasGtpu, HasPorts
  <2> QED BY <2>1, <2>2
<1> HIDE DEF a
<1>3. After(a, b, UdpSwitches) /\ b \in Stream /\ OneTunnel(b) /\ UdpSettled(b)
  <2>1. After(a, b, UdpSwitches) /\ UdpSettled(b)
    BY <1>1, AfterUdp, SettlesUdp
  <2> QED BY <1>1, <2>1, AfterKeeps, AfterTunnel
<1> HIDE DEF b
<1>4. After(b, c, DnsSwitches) /\ c \in Stream /\ OneTunnel(c) /\ DnsSettled(c)
  <2>1. After(b, c, DnsSwitches) /\ DnsSettled(c)
    BY <1>3, AfterUdp, SettlesDns
  <2> QED BY <1>3, <2>1, AfterKeeps, AfterTunnel
<1> HIDE DEF c
<1>5. After(c, r, DhcpSwitches) /\ r \in Stream /\ OneTunnel(r) /\ DhcpSettled(r)
  <2>1. After(c, r, DhcpSwitches) /\ DhcpSettled(r)
    BY <1>4, AfterUdp, SettlesDhcp
  <2> QED BY <1>4, <2>1, AfterKeeps, AfterTunnel
<1>6. ~IsOn(c, "dhcp_enabled") => r = c
  BY DEF NormDhcp
<1> HIDE DEF r
<1>7. After(a, c, UdpSwitches \cup DnsSwitches)
  BY <1>1, <1>3, <1>4, AfterChain
<1>8. After(b, r, DnsSwitches \cup DhcpSwitches)
  BY <1>3, <1>4, <1>5, AfterChain
<1>9. After(s, r, MessageSwitches)
  <2>1. After(a, r, (UdpSwitches \cup DnsSwitches) \cup DhcpSwitches)
    BY <1>1, <1>5, <1>7, AfterChain
  <2>2. After(s, r, PortFlags \cup ((UdpSwitches \cup DnsSwitches) \cup DhcpSwitches))
    BY <1>1, <2>1, AfterChain
  <2> QED BY <2>2, AfterMore DEF MessageSwitches, DhcpSwitches
<1>10. PortsSettled(c)
  BY <1>1, <1>7, SwitchesApart, UdpStays
<1>11. UdpSettled(c) /\ UdpSettled(r)
  <2>1. (DnsSwitches \cup DhcpSwitches) \cap (MessageFlags \cup TunnelFlags) = {}
    BY SwitchesApart
  <2> QED BY <1>3, <1>4, <1>8, <2>1, SwitchesApart, UdpStays
\* A DHCP message goes over UDP, in no tunnel and beside no DNS message.
<1>12. /\ r.l3 = c.l3 /\ r.l4 = c.l4
       /\ \A f \in MessageFlags \cup TunnelFlags : IsOn(r, f) = IsOn(c, f)
  BY <1>5, SwitchesApart, AfterKeeps
<1>13. IsOn(c, "dhcp_enabled") => HasPorts(r) /\ r.l4 = "UDP" /\ ~Tunnel(c) /\ ~Tunnel(r) /\ ~IsOn(c, "dns_enabled")
                                   /\ ~IsOn(r, "dns_enabled")
  BY <1>11, <1>12 DEF UdpSettled, HasDhcp, HasPorts, Tunnel, MessageFlags, TunnelFlags
<1>14. PortsSettled(r)
  <2>1. HasPorts(r) => r.l4 # "None"
    BY DEF HasPorts
  <2>2. IsOn(c, "dhcp_enabled") => PortsSettled(r)
    BY <1>13, <2>1 DEF PortsSettled
  <2> QED BY <1>6, <1>10, <2>2
<1>15. DnsSettled(r)
  BY <1>4, <1>6, <1>13 DEF DnsSettled
<1>16. GtpuPortsSettled(r)
  <2>1. a.on \cap PortFlags = c.on \cap PortFlags /\ (HasGtpu(c) => HasGtpu(a))
    <3>1. (UdpSwitches \cup DnsSwitches) \cap PortFlags = {}
      BY SwitchesApart
    <3>2. a.on \ (UdpSwitches \cup DnsSwitches) = c.on \ (UdpSwitches \cup DnsSwitches)
      BY <1>7 DEF After
    <3> QED BY <1>7, <3>1, <3>2, AfterPlain
  <2>2. GtpuPortsSettled(c)
    BY <1>2, <2>1 DEF GtpuPortsSettled
  <2>3. IsOn(c, "dhcp_enabled") => ~HasGtpu(r)
    BY <1>13 DEF HasGtpu, Tunnel
  <2> QED BY <1>6, <2>2, <2>3 DEF GtpuPortsSettled
<1>17. r = NormDhcp(NormDns(NormUdp(NormPorts(s))))
  BY DEF r, c, b, a
<1> QED BY <1>5, <1>9, <1>11, <1>14, <1>15, <1>16, <1>17 DEF MessagesSettled

LEMMA TransportStage ==
  ASSUME NEW s \in Stream, OneTunnel(s)
  PROVE  LET r == NormVxlan(NormIcmp(NormSctp(NormTcp(s))))
         IN After(s, r, TransportSwitches) /\ OneTunnel(r) /\ TransportSettled(r)
<1> DEFINE a == NormTcp(s)
           b == NormSctp(a)
           c == NormIcmp(b)
           r == NormVxlan(c)
<1>1. After(s, a, TcpOptionFlags) /\ a \in Stream /\ OneTunnel(a) /\ TcpSettled(a)
  <2>1. After(s, a, TcpOptionFlags) /\ TcpSettled(a)
    BY AfterTransport, SettlesTcp
  <2> QED BY <2>1, AfterKeeps, AfterTunnel
<1> HIDE DEF a
<1>2. After(a, b, SctpSwitches) /\ b \in Stream /\ OneTunnel(b) /\ SctpSettled(b)
  <2>1. After(a, b, SctpSwitches) /\ SctpSettled(b)
    BY <1>1, AfterTransport, SettlesSctp
  <2> QED BY <1>1, <2>1, AfterKeeps, AfterTunnel
<1> HIDE DEF b
<1>3. After(b, c, {"icmp_checksum_override"}) /\ c \in Stream /\ OneTunnel(c) /\ IcmpSettled(c)
  <2>1. After(b, c, {"icmp_checksum_override"}) /\ IcmpSettled(c)
    BY <1>2, AfterTransport, SettlesIcmp
  <2> QED BY <1>2, <2>1, AfterKeeps, AfterTunnel
<1> HIDE DEF c
<1>4. After(c, r, {}) /\ r \in Stream /\ OneTunnel(r) /\ VxlanSettled(r)
  <2>1. After(c, r, {}) /\ VxlanSettled(r)
    BY <1>3, AfterTunnels, SettlesVxlan
  <2> QED BY <1>3, <2>1, AfterKeeps, AfterTunnel
<1> HIDE DEF r
<1>5. After(b, r, {"icmp_checksum_override"} \cup {})
  BY <1>2, <1>3, <1>4, AfterChain
<1>6. After(a, r, SctpSwitches \cup ({"icmp_checksum_override"} \cup {}))
  BY <1>1, <1>2, <1>5, AfterChain
<1>7. After(s, r, TransportSwitches)
  <2>1. After(s, r, TcpOptionFlags \cup (SctpSwitches \cup ({"icmp_checksum_override"} \cup {})))
    BY <1>1, <1>6, AfterChain
  <2> QED BY <2>1, AfterMore DEF TransportSwitches
<1>8. TcpSettled(r)
  <2>1. (SctpSwitches \cup ({"icmp_checksum_override"} \cup {})) \cap TcpOptionFlags = {}
    BY SwitchesApart
  <2> QED BY <1>1, <1>6, <2>1, TransportStays
<1>9. SctpSettled(r)
  <2>1. ({"icmp_checksum_override"} \cup {}) \cap (SctpSwitches \cup LongSwitches) = {}
    BY SwitchesApart
  <2> QED BY <1>2, <1>5, <2>1, TransportStays
<1>10. IcmpSettled(r)
  BY <1>3, <1>4, TransportStays
<1>11. r = NormVxlan(NormIcmp(NormSctp(NormTcp(s))))
  BY DEF r, c, b, a
<1> QED BY <1>4, <1>7, <1>8, <1>9, <1>10, <1>11 DEF TransportSettled

\* What the server first makes of the lengths: another length only where the frame varies or is imported.
LEMMA LengthStage ==
  ASSUME NEW s, Fit(s)
  PROVE  LET t == NormLength(s)
         IN /\ t \in Stream /\ OneTunnel(t) /\ LengthSettled(t)
            /\ t.l3 = s.l3 /\ t.l4 = s.l4 /\ t.icmp = s.icmp /\ t.vxlan = s.vxlan /\ t.gtpu = s.gtpu /\ t.gre = s.gre
            /\ t.on = s.on /\ t.vary = s.vary
            /\ t.flen # "Fixed" => s.flen # "Fixed" /\ ~IsOn(s, "bytes")
            /\ s.flen = "Fixed" => t.length = s.length
<1> DEFINE t == NormLength(s)
           min == IF s.min > 9211 THEN 9211 ELSE s.min
           max == IF s.max <= min THEN min + 5 ELSE s.max
           longest == Longer(1518, s.length)
           u == [s EXCEPT !.min = min, !.max = max, !.length = max]
           w == [FixLength(s) EXCEPT !.min = 64, !.max = longest]
<1>0. s \in Stream /\ s.length \in Nat /\ s.min \in Nat /\ s.max \in Nat /\ OneTunnel(s)
  BY DEF Fit, Stream
<1>1. min \in Nat /\ max \in Nat /\ longest \in Nat
  BY <1>0 DEF Longer
<1>2. t = IF IsOn(s, "bytes") THEN w ELSE IF s.flen # "Fixed" THEN u ELSE s
  BY DEF NormLength
<1> HIDE DEF min, max, longest, t
<1>3. /\ u \in Stream /\ u.l3 = s.l3 /\ u.l4 = s.l4 /\ u.icmp = s.icmp /\ u.vxlan = s.vxlan /\ u.gtpu = s.gtpu /\ u.gre = s.gre
      /\ u.on = s.on /\ u.vary = s.vary /\ u.flen = s.flen
  BY <1>0, <1>1 DEF Stream
<1>4. /\ w \in Stream /\ w.l3 = s.l3 /\ w.l4 = s.l4 /\ w.icmp = s.icmp /\ w.vxlan = s.vxlan /\ w.gtpu = s.gtpu /\ w.gre = s.gre
      /\ w.on = s.on /\ w.vary = s.vary /\ w.flen = "Fixed" /\ w.length = s.length
  BY <1>0, <1>1 DEF Stream, FixLength
<1> HIDE DEF u, w
<1>5. /\ t \in Stream /\ t.l3 = s.l3 /\ t.l4 = s.l4 /\ t.icmp = s.icmp /\ t.vxlan = s.vxlan /\ t.gtpu = s.gtpu /\ t.gre = s.gre
      /\ t.on = s.on /\ t.vary = s.vary
      /\ t.flen # "Fixed" => s.flen # "Fixed" /\ ~IsOn(s, "bytes")
      /\ s.flen = "Fixed" => t.length = s.length
  BY <1>0, <1>2, <1>3, <1>4
<1>6. OneTunnel(t)
  BY <1>0, <1>5 DEF OneTunnel, Tunnel, IsOn, Varies
<1>7. LengthSettled(t)
  BY <1>0, SettlesLength DEF t
<1> QED BY <1>5, <1>6, <1>7 DEF t

StageSwitches == HeaderSwitches \cup (MessageSwitches \cup TransportSwitches)

LEMMA BytesApart == "bytes" \notin NewFlags /\ "bytes" \notin StageSwitches
BY DEF NewFlags, StageSwitches, HeaderSwitches, MessageSwitches, TransportSwitches, NetworkSwitches, GreSwitches, GtpuSwitches,
       PortFlags, UdpSwitches, DhcpSwitches, DnsSwitches, UdpFlags, MessageFlags, GtpuFlags, SctpSwitches, TcpOptionFlags

\* Imported bytes, and a length that varies, go with a frame whose length no stage changes.
LEMMA LengthStays ==
  ASSUME NEW s, Fit(s), Imported(s), ~(s.flen # "Fixed" /\ Message(s)), NEW r, After(NormLength(s), r, StageSwitches)
  PROVE  LengthSettled(r)
<1> DEFINE t == NormLength(s)
<1>1. /\ t \in Stream /\ LengthSettled(t) /\ t.l4 = s.l4 /\ t.on = s.on
      /\ t.flen # "Fixed" => s.flen # "Fixed" /\ ~IsOn(s, "bytes")
  BY LengthStage
<1>2. After(t, r, StageSwitches)
  OBVIOUS
<1> HIDE DEF t
<1>3. IsOn(t, "bytes") \/ t.flen # "Fixed" => PlainFrame(t)
  <2>1. /\ Tunnel(t) = Tunnel(s) /\ Message(t) = Message(s) /\ IsOn(t, "bytes") = IsOn(s, "bytes")
        /\ SupportsVariableLength(t) = SupportsVariableLength(s)
    BY <1>1 DEF Tunnel, Message, SupportsVariableLength, IsOn
  <2>2. IsOn(s, "bytes") => SupportsVariableLength(s) /\ ~Message(s)
    BY DEF Imported, SupportsVariableLength
  <2>3. s.flen # "Fixed" => SupportsVariableLength(s) /\ ~Message(s)
    BY DEF Fit, Steady
  <2> QED BY <1>1, <2>1, <2>2, <2>3 DEF PlainFrame
<1>4. PlainFrame(t) => r.length = t.length /\ r.min = t.min /\ r.max = t.max
  BY <1>2 DEF After
<1>5. IsOn(r, "bytes") = IsOn(t, "bytes") /\ (t.flen = "Fixed" => r.flen = "Fixed")
  BY <1>2, BytesApart, AfterKeeps
<1> QED BY <1>1, <1>3, <1>4, <1>5 DEF LengthSettled

LEMMA NormaliseSettles ==
  ASSUME NEW s, Fit(s)
  PROVE  /\ After(NormLength(s), Normalise(s), StageSwitches)
         /\ Imported(s) /\ ~(s.flen # "Fixed" /\ Message(s)) => Settled(Normalise(s))
<1> DEFINE t == NormLength(s)
           h == NormGtpu(NormGre(NormMpls(NormVlan(NormNetwork(t)))))
           m == NormDhcp(NormDns(NormUdp(NormPorts(h))))
           r == NormVxlan(NormIcmp(NormSctp(NormTcp(m))))
<1>1. t \in Stream /\ OneTunnel(t)
  BY LengthStage
<1>2. r = Normalise(s)
  <2>1. NormTunnels(t) = t
    BY <1>1, SameLink
  <2> QED BY <2>1 DEF Normalise
<1>3. t = NormLength(s)
  OBVIOUS
<1> HIDE DEF t
<1>4. /\ After(t, h, HeaderSwitches) /\ OneTunnel(h) /\ h \in Stream
      /\ NetworkSettled(h) /\ VlanSettled(h) /\ MplsSettled(h) /\ GreSettled(h) /\ GtpuSettled(h) /\ GtpuPortsSettled(h)
  <2>1. /\ After(t, h, HeaderSwitches) /\ OneTunnel(h)
        /\ NetworkSettled(h) /\ VlanSettled(h) /\ MplsSettled(h) /\ GreSettled(h) /\ GtpuSettled(h) /\ GtpuPortsSettled(h)
    BY <1>1, HeadersStage
  <2> QED BY <2>1, AfterKeeps
<1> HIDE DEF h
<1>5. After(h, m, MessageSwitches) /\ OneTunnel(m) /\ m \in Stream /\ GtpuPortsSettled(m) /\ PortsSettled(m) /\ MessagesSettled(m)
  <2>1. After(h, m, MessageSwitches) /\ OneTunnel(m) /\ GtpuPortsSettled(m) /\ PortsSettled(m) /\ MessagesSettled(m)
    BY <1>4, MessagesStage
  <2> QED BY <2>1, AfterKeeps
<1> HIDE DEF m
<1>6. After(m, r, TransportSwitches) /\ OneTunnel(r) /\ TransportSettled(r)
  BY <1>5, TransportStage
<1> HIDE DEF r
<1>7. After(h, r, MessageSwitches \cup TransportSwitches)
  BY <1>4, <1>5, <1>6, AfterChain
<1>8. After(t, r, StageSwitches)
  BY <1>1, <1>4, <1>7, AfterChain DEF StageSwitches
<1>9. r \in Stream /\ (Imported(s) /\ ~(s.flen # "Fixed" /\ Message(s)) => LengthSettled(r))
  BY <1>3, <1>8, LengthStays, AfterKeeps
<1>10. /\ (MessageSwitches \cup TransportSwitches) \cap {"vlan_enabled", "vlan2_enabled"} = {}
       /\ (MessageSwitches \cup TransportSwitches) \cap {"mpls_enabled", "mpls_label2_enabled", "mpls_label3_enabled"} = {}
       /\ (MessageSwitches \cup TransportSwitches) \cap (GreSwitches \cup LongSwitches) = {}
       /\ (MessageSwitches \cup TransportSwitches) \cap (GtpuFlags \cup LongSwitches) = {}
  BY SwitchesApart
<1>11. NetworkSettled(r) /\ VlanSettled(r) /\ MplsSettled(r)
  BY <1>4, <1>7, <1>10, LinkStays
<1>12. GreSettled(r) /\ GtpuSettled(r)
  <2>1. GreSettled(r)
    BY <1>4, <1>7, <1>10, GreStays
  <2>2. GtpuSettled(r)
    BY <1>4, <1>7, <1>10, GtpuStays
  <2> QED BY <2>1, <2>2
<1>13. /\ TransportSwitches \cap PortFlags = {} /\ TransportSwitches \cap (MessageFlags \cup TunnelFlags) = {}
       /\ TransportSwitches \cap (MessageFlags \cup LongSwitches \cup {"payload_enabled", "dns_answer_enabled"}) = {}
       /\ TransportSwitches \cap (MessageFlags \cup LongSwitches \cup PortFlags \cup {"payload_enabled", "dhcp_option_values"}) = {}
  BY SwitchesApart
<1>14. PortsSettled(r) /\ MessagesSettled(r)
  BY <1>5, <1>6, <1>13, UdpStays DEF MessagesSettled
<1>15. GtpuPortsSettled(r)
  <2>1. m.on \cap PortFlags = r.on \cap PortFlags
    BY <1>6, <1>13 DEF After
  <2>2. HasGtpu(r) => HasGtpu(m)
    BY <1>6, AfterPlain
  <2> QED BY <1>5, <2>1, <2>2 DEF GtpuPortsSettled
<1>16. Imported(s) /\ ~(s.flen # "Fixed" /\ Message(s)) => Settled(r)
  BY <1>6, <1>9, <1>11, <1>12, <1>14, <1>15 DEF Settled, HeadersSettled
<1> QED BY <1>2, <1>3, <1>8, <1>16
-----------------------------------------------------------------------------
(* What is opened again is accepted again *)

LEMMA SavedAccepted ==
  ASSUME NEW s, Fit(s), Imported(s), ~(s.flen # "Fixed" /\ Message(s)), validateWorkbenchStream(s)
  PROVE  validateWorkbenchStream(Normalise(s))
<1> DEFINE r == Normalise(s)
           t == NormLength(s)
<1>0. s \in Stream /\ OneTunnel(s) /\ s.length \in Nat /\ s.min \in Nat /\ s.max \in Nat
  BY DEF Fit, Stream
<1>1. Settled(r) /\ After(t, r, StageSwitches)
  BY NormaliseSettles
<1>2. /\ t \in Stream /\ t.l3 = s.l3 /\ t.l4 = s.l4 /\ t.icmp = s.icmp /\ t.on = s.on /\ t.vary = s.vary
      /\ t.flen # "Fixed" => s.flen # "Fixed" /\ ~IsOn(s, "bytes")
  BY LengthStage
\* A frame that varies keeps its lengths, at least five bytes apart.
<1>3. t.flen # "Fixed" => t.max - t.min >= 5 /\ t.min \in Nat /\ t.max \in Nat
  <2> DEFINE min == IF s.min > 9211 THEN 9211 ELSE s.min
             max == IF s.max <= min THEN min + 5 ELSE s.max
             u == [s EXCEPT !.min = min, !.max = max, !.length = max]
  <2>1. t.flen # "Fixed" => t = u
    BY <1>2 DEF NormLength
  <2>2. s.flen # "Fixed" => s.max - s.min >= 5
    BY DEF validateWorkbenchStream, validLength
  <2>3. s.flen # "Fixed" => max - min >= 5 /\ min \in Nat /\ max \in Nat
    BY <1>0, <2>2
  <2> HIDE DEF min, max, t
  <2>4. u.min = min /\ u.max = max
    BY <1>0 DEF Stream
  <2> QED BY <1>2, <2>1, <2>3, <2>4
<1>4. s.l4 = "SCTP" => sctpMinimumFrameLength(r) <= r.length
  <2> SUFFICES ASSUME s.l4 = "SCTP" PROVE sctpMinimumFrameLength(r) <= r.length
    OBVIOUS
  <2>1. ~Message(s) /\ ~IsOn(s, "bytes") /\ ~Tunnel(s)
    BY <1>0 DEF Message, Imported, validateWorkbenchStream, validApplication, OneTunnel
  <2>2. Snug(s, r)
    BY <2>1, NormaliseSnug
  <2>3. MinimumWireLength(r) <= s.length /\ s.length = r.length /\ r.l3 = s.l3 /\ r.l4 = "SCTP"
    BY <2>1, <2>2, LighterWire DEF Snug, Lighter
  <2>4. MinimumWireLength(r) = Longer(64, sctpMinimumFrameLength(r))
    <3>1. ~Tunnel(r)
      BY <1>1, <2>3 DEF Settled, OneTunnel
    <3> HIDE DEF r
    <3> QED BY <2>3, <3>1, WireKinds DEF sctpMinimumFrameLength
  <2>5. sctpMinimumFrameLength(r) \in Nat
    BY NaturalLengths
  <2> HIDE DEF r
  <2> QED BY <1>0, <2>3, <2>4, <2>5 DEF Longer
<1> HIDE DEF r, t
<1>5. r \in Stream /\ OneTunnel(r) /\ r.length \in Nat /\ r.l3 = s.l3 /\ r.l4 = s.l4
  BY <1>1, <1>2, AfterKeeps DEF Settled, Stream
<1>6. Tunnel(r) => r.l4 = "UDP"
  BY <1>5 DEF OneTunnel
<1>7. \A m, n \in Nat : m >= Longer(64, n) => m >= n
  BY DEF Longer
<1>8. Frame(r) \in Nat /\ GreHeader(r) \in Nat /\ GtpuHeader(r) \in Nat /\ \A v : IpHeader(v) \in Nat
  <2>1. Frame(r) \in Nat
    BY NaturalLengths
  <2>2. GreHeader(r) \in Nat
    BY GreWords
  <2>3. GtpuHeader(r) \in Nat
    BY DEF GtpuHeader
  <2>4. \A v : IpHeader(v) \in Nat
    BY DEF IpHeader
  <2> QED BY <2>1, <2>2, <2>3, <2>4
<1>9. validLength(r)
  <2>1. r.flen # "Fixed" => r.max - r.min >= 5
    <3>1. r.flen # "Fixed" => t.flen # "Fixed" /\ s.flen # "Fixed"
      BY <1>1, <1>2, AfterKeeps
    <3>2. s.flen # "Fixed" => PlainFrame(t)
      <4>1. /\ Message(t) = Message(s) /\ SupportsVariableLength(t) = SupportsVariableLength(s)
        BY <1>2 DEF Message, SupportsVariableLength, Tunnel, IsOn
      <4> QED BY <4>1 DEF Fit, Steady, PlainFrame
    <3>3. PlainFrame(t) => r.min = t.min /\ r.max = t.max
      BY <1>1 DEF After
    <3> QED BY <1>3, <3>1, <3>2, <3>3
  <2>2. r.flen # "Fixed" => r.l4 \notin {"ICMP", "GRE"} /\ ~Tunnel(r)
    BY <1>1 DEF Settled, TransportSettled, VxlanSettled, SupportsVariableLength
  <2>3. Icmpv6Control(r) => r.length >= icmpv6ControlMinimumFrameLength(r)
    <3> SUFFICES ASSUME Icmpv6Control(r) PROVE r.length >= icmpv6ControlMinimumFrameLength(r)
      OBVIOUS
    <3>1. r.length >= MinimumWireLength(r)
      BY <1>1 DEF Settled, TransportSettled, IcmpSettled, Roomy
    <3>2. r.icmp \in {"rs", "ra", "nd"}
      BY DEF Icmpv6Control, IcmpControl
    <3>3. icmpv6ControlMinimumFrameLength(r) = Longer(64, Frame(r) + 40 + Icmpv6Body(r))
      BY <3>2 DEF icmpv6ControlMinimumFrameLength, Icmpv6Body, SourceLinkLayer
    <3>4. MinimumWireLength(r) = Longer(64, Frame(r) + 40 + Icmpv6Body(r))
      BY <1>6, WireKinds
    <3> QED BY <3>1, <3>3, <3>4
  <2>4. r.l4 = "SCTP" => r.length >= sctpMinimumFrameLength(r)
    <3>1. sctpMinimumFrameLength(r) \in Nat
      BY NaturalLengths
    <3> QED BY <1>4, <1>5, <3>1
  <2> QED BY <2>1, <2>2, <2>3, <2>4 DEF validLength
<1>10. validIcmp(r)
  BY <1>1 DEF validIcmp, Settled, TransportSettled, IcmpSettled
<1>11. validVxlan(r)
  <2> SUFFICES ASSUME IsOn(r, "vxlan_enabled")
               PROVE  /\ r.l3 = "IPv4" /\ r.l4 = "UDP"
                      /\ r.length >= Frame(r) + 20 + 8 + 8 + 14 + IpHeader(r.vxlan) + 8
    BY DEF validVxlan
  <2>1. r.l3 = "IPv4" /\ r.l4 = "UDP" /\ ~HasGtpu(r)
    BY <1>5 DEF OneTunnel, Tunnel, HasGtpu
  <2>2. ~IsOn(r, "bytes")
    <3>1. IsOn(s, "vxlan_enabled")
      BY <1>1, <1>2, AfterKeeps, NewFlagsApart DEF IsOn
    <3>2. ~IsOn(s, "bytes")
      BY <3>1 DEF Imported, Tunnel
    <3> QED BY <1>1, <1>2, <3>2, AfterKeeps, BytesApart DEF IsOn
  <2>3. r.length >= MinimumWireLength(r)
    BY <1>1, <2>2 DEF Settled, TransportSettled, VxlanSettled, Roomy
  <2> DEFINE n == Frame(r) + 20 + 8 + 8 + 14 + IpHeader(r.vxlan) + 8
  <2>4. MinimumWireLength(r) = Longer(64, n)
    BY <1>6, <2>1, WireKinds
  <2>5. n \in Nat
    BY <1>8
  <2> HIDE DEF n
  <2>6. r.length >= n
    BY <1>5, <1>7, <2>3, <2>4, <2>5
  <2> QED BY <2>1, <2>6 DEF n
<1>12. validGtpu(r)
  <2> SUFFICES ASSUME IsOn(r, "gtpu_enabled")
               PROVE  /\ r.l3 = "IPv4" /\ r.l4 = "UDP"
                      /\ r.length >= Frame(r) + 20 + 8 + GtpuHeader(r) + IpHeader(r.gtpu) + 8
    BY DEF validGtpu
  <2>1. r.l3 = "IPv4" /\ r.l4 = "UDP" /\ HasGtpu(r)
    BY <1>5 DEF OneTunnel, Tunnel, HasGtpu
  <2>2. r.length >= MinimumWireLength(r)
    BY <1>1, <2>1 DEF Settled, HeadersSettled, GtpuSettled, Roomy
  <2> DEFINE n == Frame(r) + 20 + 8 + GtpuHeader(r) + IpHeader(r.gtpu) + 8
  <2>3. MinimumWireLength(r) = Longer(64, n)
    BY <1>6, <2>1, WireKinds
  <2>4. n \in Nat
    BY <1>8
  <2> HIDE DEF n
  <2>5. r.length >= n
    BY <1>5, <1>7, <2>2, <2>3, <2>4
  <2> QED BY <2>1, <2>5 DEF n
<1>13. validGre(r)
  <2> SUFFICES ASSUME r.l4 = "GRE"
               PROVE  /\ r.length >= Frame(r) + IpHeader(r.l3) + GreHeader(r) + IpHeader(GreInnerVersion(r)) + 8
                      /\ IsOn(r, "gre_checksum_present") => ~Varies(r, GreModes)
                      /\ Varies(r, {"gre_key"}) => IsOn(r, "gre_key_present")
                      /\ Varies(r, {"gre_sequence"}) => IsOn(r, "gre_sequence_present")
    BY DEF validGre
  <2>1. GreSettled(r)
    BY <1>1 DEF Settled, HeadersSettled
  <2>2. r.length >= MinimumWireLength(r)
    BY <2>1 DEF GreSettled, Roomy
  <2> DEFINE n == Frame(r) + IpHeader(r.l3) + GreHeader(r) + IpHeader(GreInnerVersion(r)) + 8
  <2>3. MinimumWireLength(r) = Longer(64, n)
    BY <1>6, WireKinds
  <2>4. n \in Nat
    BY <1>8
  <2> HIDE DEF n
  <2>5. r.length >= n
    BY <1>5, <1>7, <2>2, <2>3, <2>4
  <2>6. IsOn(r, "gre_checksum_present") => ~Varies(r, GreModes)
    BY <2>1 DEF GreSettled, IsOn
  <2> QED BY <2>1, <2>5, <2>6 DEF GreSettled, n
<1>14. validApplication(r)
  <2>1. IsOn(r, "mpls_enabled") => HasIp(r)
    BY <1>1, <1>5 DEF Settled, HeadersSettled, NetworkSettled, IsOn, HasIp, Stream, Network, Versions
  <2>2. IsOn(r, "dns_enabled") => r.l4 = "UDP" /\ ~Tunnel(r)
    BY <1>1 DEF Settled, MessagesSettled, UdpSettled, HasDns
  <2>3. IsOn(r, "dhcp_enabled") => r.l3 = "IPv4" /\ r.l4 = "UDP" /\ ~IsOn(r, "vxlan_enabled")
    BY <1>1 DEF Settled, MessagesSettled, UdpSettled, HasDhcp, Tunnel
  <2>4. IsOn(r, "dhcp_enabled") /\ Varies(r, DhcpOptionAddressModes) => IsOn(r, "dhcp_option_values")
    BY <1>1 DEF Settled, MessagesSettled, DhcpSettled, Varies, DhcpOptionModes
  <2> QED BY <2>1, <2>2, <2>3, <2>4 DEF validApplication
<1>15. validateWorkbenchStream(r)
  BY <1>9, <1>10, <1>11, <1>12, <1>13, <1>14 DEF validateWorkbenchStream
<1> QED BY <1>15 DEF r

\* Opened again, the panels show what is sent: nothing is left to overrule.
LEMMA SettledShown ==
  ASSUME NEW r, Settled(r), NEW f, f \in Seen(r), f \in UdpModes => f \in Fields(r)
  PROVE  f \notin Overruled(r)
<1>0. r \in Stream /\ f \in r.vary
  BY DEF Settled, Seen
<1>1. ~(Icmpv6Control(r) /\ f = "ipv6_hop_limit")
  BY <1>0 DEF Settled, TransportSettled, IcmpSettled, Varies
<1>2. \A g \in UdpModes : f = g => IsOn(r, IF g = "udp_length" THEN "udp_length_override" ELSE "udp_checksum_override")
  <2> SUFFICES ASSUME f \in UdpModes
               PROVE  IsOn(r, IF f = "udp_length" THEN "udp_length_override" ELSE "udp_checksum_override")
    OBVIOUS
  <2>1. f \in TransportModes
    BY DEF TransportModes
  <2>2. f \in TransportFields(r)
    BY <1>0, <2>1, LayerFields, Layers DEF Fields
  <2> QED BY <1>0, <2>2, TransportSent
<1>3. ~(Message(r) /\ f = "udp_length")
  <2>1. Message(r) => ~IsOn(r, "udp_length_override")
    BY DEF Settled, MessagesSettled, DnsSettled, DhcpSettled, Message
  <2> QED BY <1>2, <2>1 DEF UdpModes
<1>4. ~(Spoken(r) /\ f = "udp_checksum")
  <2>1. Varies(r, DnsModes) => ~IsOn(r, "udp_checksum_override") \/ ~IsOn(r, "dns_enabled")
    BY DEF Settled, MessagesSettled, DnsSettled
  <2>2. Varies(r, DhcpModes) => ~IsOn(r, "udp_checksum_override") \/ ~IsOn(r, "dhcp_enabled")
    BY DEF Settled, MessagesSettled, DhcpSettled
  <2>3. (~IsOn(r, "dns_enabled") => ~Varies(r, DnsModes)) /\ (~IsOn(r, "dhcp_enabled") => ~Varies(r, DhcpModes))
    BY DEF Settled, MessagesSettled, UdpSettled
  <2>4. Spoken(r) => Varies(r, DnsModes) \/ Varies(r, DhcpModes)
    BY DEF Spoken, Seen, Varies
  <2>5. Spoken(r) => ~IsOn(r, "udp_checksum_override")
    BY <2>1, <2>2, <2>3, <2>4
  <2> QED BY <1>2, <2>5 DEF UdpModes
<1>5. ~(r.l4 = "GRE" /\ r.gre # GreInnerVersion(r) /\ f \in GreInner4Modes)
  <2>1. r.l4 = "GRE" /\ r.gre # GreInnerVersion(r) => GreInnerVersion(r) = "IPv6"
    BY <1>0 DEF GreInnerVersion, Stream, Versions
  <2>2. r.l4 = "GRE" => ~Varies(r, OtherVersion(GreInnerVersion(r), GreInner4Modes, GreInner6Modes))
    BY DEF Settled, HeadersSettled, GreSettled
  <2> QED BY <1>0, <2>1, <2>2 DEF OtherVersion, Varies
<1> QED BY <1>1, <1>3, <1>4, <1>5 DEF Overruled, When, Spoken

LEMMA SettledSeen ==
  ASSUME NEW r, Settled(r), Fit(r), Tidy(r), validateWorkbenchStream(r)
  PROVE  Applied(r) = Seen(r)
<1>0. r \in Stream
  BY DEF Fit
<1>1. Applied(r) = Seen(r) \ Overruled(r)
  BY SettledSame, SavedAsSeen
\* The panel shows the length and the checksum of UDP as they are sent.
<1>2. ASSUME NEW f \in UdpModes, f \in Seen(r) PROVE f \in Fields(r)
  <2> DEFINE L == LinkControls(r)
             N == NetworkControls(r)
             T == TunnelControls(r)
             R == TransportControls(r)
  <2>1. f \in r.vary /\ f \in L \cup N \cup T \cup R
    BY <1>2 DEF Seen, Controls, LinkControls, NetworkControls, TunnelControls, TransportControls, DnsControls, DhcpControls,
       SctpControls, TcpCoreControls, TcpOptionControls, IcmpControls
  <2>2. f \in TransportModes /\ f \notin Others
    BY OthersApart DEF TransportModes
  <2>3. L \subseteq LinkModes \cup Others /\ N \subseteq NetworkModes /\ T \subseteq TunnelModes \cup Others
    BY <1>0, LinkShown, NetworkShown, TunnelShown, LayerFields
  <2>4. f \in R => f \in TransportFields(r)
    BY <2>1, <2>2, TransportShown
  <2> HIDE DEF L, N, T, R
  <2>5. f \in TransportFields(r)
    BY <2>1, <2>2, <2>3, <2>4, Layers
  <2> QED BY <2>5 DEF Fields, TransportFields
<1>3. Seen(r) \cap Overruled(r) = {}
  BY <1>2, SettledShown
<1> QED BY <1>1, <1>3
-----------------------------------------------------------------------------
(* Imported bytes *)

\* The modes of the ports are laid over imported bytes; every other edit drops them.
LEMMA BytesGone ==
  ASSUME NEW patched, NEW a, handleStreamChange(patched, a), packetBinaryInvalidating(a), stream' \in Stream
  PROVE  ~IsOn(stream', "bytes")
<1>1. stream' = [patched EXCEPT !.on = patched.on \ {"bytes"}]
  BY DEF handleStreamChange, TurnOff
<1>2. "on" \in DOMAIN stream'
  BY DEF Stream
<1>3. DOMAIN stream' = DOMAIN patched
  BY <1>1
<1>4. stream'.on = patched.on \ {"bytes"}
  BY <1>1, <1>2, <1>3
<1> QED BY <1>4 DEF IsOn

LEMMA HarmlessInvalidates ==
  ASSUME NEW a
  PROVE  Harmless(a) => packetBinaryInvalidating(a)
BY DEF Harmless, PlainModes, packetBinaryInvalidating

LEMMA EditsInvalidate ==
  ASSUME NEW a
  PROVE  /\ a \in EtherActions \cup VlanActions \cup VlanInnerActions \cup MplsActions \cup MplsSecondActions
                    \cup MplsThirdActions \cup ArpActions \cup Ipv4AddressActions \cup Ipv4ScalarActions
                    \cup Ipv6AddressActions \cup Ipv6ScalarActions => packetBinaryInvalidating(a)
         /\ a \in UdpActions \cup DnsQueryActions \cup DnsAnswerActions \cup DhcpBootpActions \cup DhcpAddressActions
                    \cup DhcpOptionActions \cup SctpActions \cup TcpCoreActions \cup TcpOptionActions
                    \cup IcmpTypeActions \cup IcmpEchoActions \cup Icmpv6Actions => packetBinaryInvalidating(a)
         /\ a \in VxlanVniActions \cup VxlanInnerActions \cup VxlanPortActions => packetBinaryInvalidating(a)
         /\ a \in GtpuTeidActions \cup GtpuOptionActions \cup GtpuInnerActions \cup GtpuPortActions => packetBinaryInvalidating(a)
         /\ a \in GreOptionActions \cup GreInnerActions \cup GrePortActions => packetBinaryInvalidating(a)
         /\ a \in VlanSelection \cup MplsSelection \cup PayloadSelection => packetBinaryInvalidating(a)
         /\ a \in TunnelSelection \cup L3Selection \cup L4Selection \cup FrameLengthType \cup FrameLengthValue =>
              packetBinaryInvalidating(a)
<1>1. a \in EtherActions \cup VlanActions \cup VlanInnerActions \cup MplsActions \cup MplsSecondActions
              \cup MplsThirdActions \cup ArpActions \cup Ipv4AddressActions \cup Ipv4ScalarActions
              \cup Ipv6AddressActions \cup Ipv6ScalarActions => packetBinaryInvalidating(a)
  BY LinkActions, HarmlessInvalidates
<1>2. a \in IcmpTypeActions => packetBinaryInvalidating(a)
  BY Sent DEF IcmpTypeActions, packetBinaryInvalidating, L4PortModes
<1>3. a \in UdpActions \cup DnsQueryActions \cup DnsAnswerActions \cup DhcpBootpActions \cup DhcpAddressActions
              \cup DhcpOptionActions \cup SctpActions \cup TcpCoreActions \cup TcpOptionActions
              \cup IcmpEchoActions \cup Icmpv6Actions => packetBinaryInvalidating(a)
  BY OtherActions, HarmlessInvalidates
<1>4. a \in VlanSelection \cup MplsSelection \cup PayloadSelection => packetBinaryInvalidating(a)
  BY OtherActions, HarmlessInvalidates
<1>5. a \in VxlanVniActions \cup VxlanInnerActions \cup VxlanPortActions => packetBinaryInvalidating(a)
  <2>1. \A F : a \in Mode(F) => a.field \in F
    BY Sent
  <2>2. L4PortModes \cap (VxlanVniModes \cup VxlanInner4Modes \cup VxlanInner6Modes \cup VxlanPortModes) = {}
    BY DEF L4PortModes, VxlanVniModes, VxlanInner4Modes, VxlanInner6Modes, VxlanPortModes
  <2>3. a \in VxlanVniActions => packetBinaryInvalidating(a)
    BY <2>2, Sent DEF VxlanVniActions, packetBinaryInvalidating
  <2>4. a \in VxlanInnerActions \cup VxlanPortActions => packetBinaryInvalidating(a)
    BY <2>1, <2>2 DEF VxlanInnerActions, VxlanPortActions, packetBinaryInvalidating
  <2> QED BY <2>3, <2>4
<1>6. a \in GtpuTeidActions \cup GtpuOptionActions \cup GtpuInnerActions \cup GtpuPortActions => packetBinaryInvalidating(a)
  <2>1. \A F : a \in Mode(F) => a.field \in F
    BY Sent
  <2>2. L4PortModes \cap (GtpuTeidModes \cup GtpuOptionModes \cup GtpuInner4Modes \cup GtpuInner6Modes \cup GtpuPortModes) = {}
    BY DEF L4PortModes, GtpuTeidModes, GtpuOptionModes, GtpuInner4Modes, GtpuInner6Modes, GtpuPortModes
  <2>3. a \in GtpuTeidActions \cup GtpuOptionActions => packetBinaryInvalidating(a)
    BY <2>2, Sent DEF GtpuTeidActions, GtpuOptionActions, packetBinaryInvalidating
  <2>4. a \in GtpuInnerActions \cup GtpuPortActions => packetBinaryInvalidating(a)
    BY <2>1, <2>2 DEF GtpuInnerActions, GtpuPortActions, packetBinaryInvalidating
  <2> QED BY <2>3, <2>4
<1>7. a \in GreOptionActions \cup GreInnerActions \cup GrePortActions => packetBinaryInvalidating(a)
  <2>1. \A F : a \in Mode(F) => a.field \in F
    BY Sent
  <2>2. L4PortModes \cap (GreOptionModes \cup GreInner4Modes \cup GreInner6Modes \cup GrePortModes) = {}
    BY DEF L4PortModes, GreOptionModes, GreInner4Modes, GreInner6Modes, GrePortModes
  <2>3. a \in GreOptionActions \cup GreInnerActions => packetBinaryInvalidating(a)
    BY <2>2, Sent DEF GreOptionActions, GreInnerActions, packetBinaryInvalidating
  <2>4. a \in GrePortActions => packetBinaryInvalidating(a)
    BY <2>1, <2>2 DEF GrePortActions, packetBinaryInvalidating
  <2> QED BY <2>3, <2>4
<1>8. a \in TunnelSelection \cup L3Selection \cup L4Selection \cup FrameLengthType \cup FrameLengthValue =>
        packetBinaryInvalidating(a)
  BY Sent DEF TunnelSelection, L3Selection, L4Selection, FrameLengthType, FrameLengthValue, packetBinaryInvalidating
<1> QED BY <1>1, <1>2, <1>3, <1>4, <1>5, <1>6, <1>7, <1>8

\* Every edit of a header, but for the modes of the ports, drops the imported bytes.
LEMMA LinkEditsDrop ==
  ASSUME LinkEdits \/ NetworkEdits, stream' \in Stream
  PROVE  ~IsOn(stream', "bytes")
<1>1. CASE VlanSelect \/ MplsSelect
  BY <1>1, EditsInvalidate, BytesGone DEF VlanSelect, MplsSelect, Select
<1>2. CASE EtherEdit \/ VlanEdit \/ VlanInnerEdit \/ MplsEdit \/ MplsSecondEdit \/ MplsThirdEdit
  BY <1>2, EditsInvalidate, BytesGone
     DEF EtherEdit, VlanEdit, VlanInnerEdit, MplsEdit, MplsSecondEdit, MplsThirdEdit, Edit
<1>3. CASE NetworkEdits
  BY <1>3, EditsInvalidate, BytesGone
     DEF NetworkEdits, ArpEdit, Ipv4AddressEdit, Ipv4ScalarEdit, Ipv6AddressEdit, Ipv6ScalarEdit, Edit
<1> QED BY <1>1, <1>2, <1>3 DEF LinkEdits

LEMMA TransportEditsDrop ==
  ASSUME TransportEdits, ~L4PortEdit, stream' \in Stream
  PROVE  ~IsOn(stream', "bytes")
<1>1. CASE UdpEdit \/ DnsQueryEdit \/ DnsAnswerEdit \/ DhcpBootpEdit \/ DhcpAddressEdit \/ DhcpOptionEdit
  BY <1>1, EditsInvalidate, BytesGone
     DEF UdpEdit, DnsQueryEdit, DnsAnswerEdit, DhcpBootpEdit, DhcpAddressEdit, DhcpOptionEdit, Edit
<1>2. CASE SctpEdit \/ TcpCoreEdit \/ TcpOptionEdit
  BY <1>2, EditsInvalidate, BytesGone DEF SctpEdit, TcpCoreEdit, TcpOptionEdit, Edit
<1>3. CASE IcmpTypeEdit \/ IcmpEchoEdit \/ Icmpv6Edit
  BY <1>3, EditsInvalidate, BytesGone DEF IcmpTypeEdit, IcmpEchoEdit, Icmpv6Edit, Edit
<1> QED BY <1>1, <1>2, <1>3 DEF TransportEdits

LEMMA TunnelEditsDrop ==
  ASSUME TunnelEdits, stream' \in Stream
  PROVE  ~IsOn(stream', "bytes")
<1>1. CASE VxlanVniEdit \/ VxlanInnerEdit \/ VxlanPortEdit
  BY <1>1, EditsInvalidate, BytesGone DEF VxlanVniEdit, VxlanInnerEdit, VxlanPortEdit, Edit
<1>2. CASE GtpuTeidEdit \/ GtpuOptionEdit \/ GtpuInnerEdit \/ GtpuPortEdit
  BY <1>2, EditsInvalidate, BytesGone DEF GtpuTeidEdit, GtpuOptionEdit, GtpuInnerEdit, GtpuPortEdit, Edit
<1>3. CASE GreOptionEdit \/ GreInnerEdit \/ GrePortEdit
  BY <1>3, EditsInvalidate, BytesGone DEF GreOptionEdit, GreInnerEdit, GrePortEdit, Edit
<1> QED BY <1>1, <1>2, <1>3 DEF TunnelEdits

LEMMA SelectionEditsDrop ==
  ASSUME ProtocolEdit \/ PacketTypeEdit \/ FrameLengthTypeEdit \/ FrameLengthEdit \/ PayloadSelect,
         Fit(stream), stream' \in Stream
  PROVE  ~IsOn(stream', "bytes")
<1>1. CASE ProtocolEdit \/ FrameLengthTypeEdit \/ FrameLengthEdit \/ PayloadSelect
  BY <1>1, EditsInvalidate, BytesGone DEF ProtocolEdit, FrameLengthTypeEdit, FrameLengthEdit, PayloadSelect, Select
<1>2. CASE PacketTypeEdit
  <2>1. PICK l3 \in Network, l4 \in Transport : stream' = TurnOff(packetTypePatch(stream, l3, l4), {"bytes"})
    BY <1>2 DEF PacketTypeEdit
  <2>2. packetTypePatch(stream, l3, l4) \in Stream
    BY PacketTypePatch DEF Fit
  <2> QED BY <2>1, <2>2, Written DEF IsOn
<1> QED BY <1>1, <1>2

\* An edit of the ports keeps the protocols and the messages.
LEMMA PortEditKeeps ==
  ASSUME L4PortEdit, Fit(stream), Imported(stream)
  PROVE  Imported(stream')
<1>0. stream \in Stream
  BY DEF Fit
<1>1. PICK a \in L4PortActions : a.field \in L4PortPanel(stream) /\ handleStreamChange(L4PortPatch(stream, a), a)
  BY DEF L4PortEdit, Edit
<1>2. L4PortPatch(stream, a) \in Stream
  BY <1>1, PortPatch DEF Fit
<1>3. CASE packetBinaryInvalidating(a)
  <2>1. stream' = TurnOff(L4PortPatch(stream, a), {"bytes"})
    BY <1>1, <1>3 DEF handleStreamChange
  <2>2. ~IsOn(stream', "bytes")
    BY <1>2, <2>1, Written DEF IsOn
  <2> QED BY <2>2 DEF Imported
<1>4. CASE ~packetBinaryInvalidating(a)
  <2>1. a.kind = "mode" /\ a.field \in L4PortModes
    BY <1>4 DEF packetBinaryInvalidating
  <2>2. stream' = Plain(stream, a)
    BY <1>1, <1>4, <2>1 DEF handleStreamChange, L4PortPatch, L4PortModes
  <2> DEFINE V == IF a.to = "Varied" THEN stream.vary \cup {a.field} ELSE stream.vary \ {a.field}
  <2>3. stream' = [stream EXCEPT !.vary = V]
    BY <2>1, <2>2 DEF Plain
  <2> HIDE DEF V
  <2>4. stream'.on = stream.on /\ stream'.l4 = stream.l4
    BY <1>0, <2>3 DEF Stream
  <2> QED BY <2>4 DEF Imported, IsOn, Tunnel, Message
<1> QED BY <1>3, <1>4

\* No save turns a packet into an imported one, or one into a tunnel or a message.
LEMMA SaveKeeps ==
  ASSUME NEW s, Fit(s), Tidy(s), Imported(s), validateWorkbenchStream(s)
  PROVE  Imported(Normalise(s))
<1> DEFINE r == Normalise(s)
           t == NormLength(s)
<1>0. s \in Stream
  BY DEF Fit
<1>1. Carries(s, r, s.on, s.vary)
  BY NormaliseCarries
<1>2. After(t, r, StageSwitches) /\ t \in Stream /\ t.on = s.on
  BY NormaliseSettles, LengthStage
<1> HIDE DEF r, t
<1>3. IsOn(r, "bytes") => IsOn(s, "bytes")
  BY <1>2, BytesApart, AfterKeeps DEF IsOn
<1>4. r.l4 = s.l4 /\ Tunnel(r) = Tunnel(s) /\ Message(r) = Message(s)
  BY <1>0, <1>1, StillOn DEF Carries, Tunnel, Message
<1>5. Imported(r)
  BY <1>3, <1>4 DEF Imported
<1> QED BY <1>5 DEF r

SettledInv == TidyInv /\ Imported(stream)

LEMMA InitImported ==
  ASSUME Init
  PROVE  Imported(stream)
<1>1. DefaultStream.on = Icmpv6Flags \cup {"payload_enabled", "sctp_zero"} /\ DefaultStream.l4 = "UDP"
  BY DEF DefaultStream
<1>2. ImportedStream.on = DefaultStream.on \cup {"bytes", "l4_src_port_override", "l4_dst_port_override"}
      /\ ImportedStream.l4 = DefaultStream.l4
  BY DEF ImportedStream, TurnOn, DefaultStream
<1> QED BY <1>1, <1>2 DEF Init, Imported, IsOn, Tunnel, Message, Icmpv6Flags

LEMMA NextSettled ==
  SettledInv /\ [Next]_vars => SettledInv'
<1> SUFFICES ASSUME SettledInv, [Next]_vars PROVE Imported(stream')
  BY NextTidy DEF SettledInv
<1>0. Fit(stream) /\ Tidy(stream) /\ Imported(stream) /\ stream' \in Stream
  BY NextFit DEF SettledInv, TidyInv, Inv, Fit
<1>1. CASE LinkEdits \/ NetworkEdits
  BY <1>0, <1>1, LinkEditsDrop DEF Imported
<1>2. CASE TransportEdits
  BY <1>0, <1>2, TransportEditsDrop, PortEditKeeps DEF Imported
<1>3. CASE TunnelEdits
  BY <1>0, <1>3, TunnelEditsDrop DEF Imported
<1>4. CASE ProtocolEdit \/ PacketTypeEdit \/ FrameLengthTypeEdit \/ FrameLengthEdit \/ PayloadSelect
  BY <1>0, <1>4, SelectionEditsDrop DEF Imported
<1>5. CASE SaveAndOpen
  BY <1>0, <1>5, SaveKeeps DEF SaveAndOpen
<1>6. CASE UNCHANGED vars
  BY <1>0, <1>6 DEF vars
<1> QED BY <1>1, <1>2, <1>3, <1>4, <1>5, <1>6 DEF Next

LEMMA SavedSettles ==
  ASSUME NEW s, Fit(s), Tidy(s), Imported(s), validateWorkbenchStream(s), ~(s.flen # "Fixed" /\ Message(s))
  PROVE  /\ validateWorkbenchStream(Normalise(s))
         /\ Normalise(Normalise(s)) = Normalise(s)
         /\ Applied(Normalise(s)) = Seen(Normalise(s))
<1> DEFINE r == Normalise(s)
<1>1. Settled(r) /\ Fit(r)
  BY NormaliseSettles, NormaliseFit
<1>2. Tidy(r)
  BY NormaliseCarries, CarriesTidy
<1>3. validateWorkbenchStream(r)
  BY SavedAccepted
<1> HIDE DEF r
<1>4. Normalise(r) = r /\ Applied(r) = Seen(r)
  BY <1>1, <1>2, <1>3, SettledSame, SettledSeen
<1> QED BY <1>3, <1>4 DEF r

\* A saved profile that is opened again is accepted by the page, is not changed by saving it once
\* more, and the traffic generator varies what its panels show (validateWorkbenchStream of the
\* page, normalize_workbench_streams of the server).
THEOREM ReloadsSettle == Spec => []ReloadSettles
<1>1. Init => SettledInv
  BY InitFit, InitTidy, InitImported DEF SettledInv, TidyInv
<1>2. SettledInv => ReloadSettles
  BY SavedSettles DEF SettledInv, TidyInv, Inv, ReloadSettles, Saved
<1> QED BY <1>1, <1>2, NextSettled, PTL DEF Spec
=============================================================================
