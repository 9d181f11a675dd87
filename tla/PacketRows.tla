----------------------------- MODULE PacketRows -----------------------------
(***************************************************************************)
(* The rows of the decoded packet, one per field, that the packet editor   *)
(* shows and edits (rawPacketModel.ts, buildRawPacketFieldRows).  A row    *)
(* has the layer it is shown under, the field, and the bytes it stands     *)
(* for.  The layer is what the header is inside of ("" for the outermost   *)
(* headers), the header's kind and, where tags, labels and extension       *)
(* headers are numbered, its number.                                       *)
(***************************************************************************)
EXTENDS PacketSegments

Layer(within, kind, nth) == [within |-> within, kind |-> kind, nth |-> nth]
Row(layer, field, at, bytes) == [layer |-> layer, field |-> field, at |-> at, bytes |-> bytes]

\* The rows of the part at an offset, from a table of <<field, offset in the
\* part, bytes>>.
RowsOf(layer, offset, table) ==
  { Row(layer, entry[1], offset + entry[2], entry[3]) : entry \in table }

MacTable == { <<"dst", 0, 6>>, <<"src", 6, 6>>, <<"type", 12, 2>> }
TagTable ==
  { <<"tci", 0, 2>>, <<"priority", 0, 2>>, <<"cfi", 0, 2>>, <<"id", 0, 2>>, <<"type", 2, 2>> }
LabelTable ==
  { <<"header", 0, 4>>, <<"label", 0, 4>>, <<"class", 0, 4>>, <<"bottom", 0, 4>>, <<"ttl", 3, 1>> }
ArpTable ==
  { <<"htype", 0, 2>>, <<"ptype", 2, 2>>, <<"hsize", 4, 1>>, <<"psize", 5, 1>>, <<"op", 6, 2>>,
    <<"smac", 8, 6>>, <<"sip", 14, 4>>, <<"tmac", 18, 6>>, <<"tip", 24, 4>> }
Ipv4Table ==
  { <<"version", 0, 1>>, <<"ihl", 0, 1>>, <<"dscp", 1, 1>>, <<"ecn", 1, 1>>, <<"length", 2, 2>>,
    <<"id", 4, 2>>, <<"reserved", 6, 2>>, <<"df", 6, 2>>, <<"mf", 6, 2>>, <<"offset", 6, 2>>,
    <<"ttl", 8, 1>>, <<"protocol", 9, 1>>, <<"checksum", 10, 2>>, <<"src", 12, 4>>, <<"dst", 16, 4>> }
Ipv6Table ==
  { <<"version", 0, 4>>, <<"class", 0, 4>>, <<"flow", 0, 4>>, <<"length", 4, 2>>,
    <<"next", 6, 1>>, <<"hops", 7, 1>>, <<"src", 8, 16>>, <<"dst", 24, 16>> }
UdpTable == { <<"sport", 0, 2>>, <<"dport", 2, 2>>, <<"length", 4, 2>>, <<"checksum", 6, 2>> }
TcpTable ==
  { <<"sport", 0, 2>>, <<"dport", 2, 2>>, <<"seq", 4, 4>>, <<"ack", 8, 4>>, <<"offset", 12, 1>>,
    <<"reserved", 12, 1>>, <<"flags", 13, 1>>, <<"window", 14, 2>>, <<"checksum", 16, 2>>,
    <<"urgent", 18, 2>> }
SctpTable == { <<"sport", 0, 2>>, <<"dport", 2, 2>>, <<"tag", 4, 4>>, <<"checksum", 8, 4>> }
GreTable == { <<"flags", 0, 2>>, <<"protocol", 2, 2>> }
VxlanTable == { <<"flags", 0, 1>>, <<"reserved", 1, 3>>, <<"vni", 4, 3>>, <<"reserved2", 7, 1>> }
GtpuTable == { <<"flags", 0, 1>>, <<"message", 1, 1>>, <<"length", 2, 2>>, <<"teid", 4, 4>> }
DnsTable ==
  { <<"id", 0, 2>>, <<"qdcount", 4, 2>>, <<"ancount", 6, 2>>, <<"nscount", 8, 2>>, <<"arcount", 10, 2>> }
    \cup { <<flag, 2, 2>> : flag \in { "flags", "qr", "opcode", "aa", "tc", "rd", "ra", "z", "rcode" } }
DhcpTable ==
  { <<"op", 0, 1>>, <<"htype", 1, 1>>, <<"hlen", 2, 1>>, <<"hops", 3, 1>>, <<"xid", 4, 4>>,
    <<"secs", 8, 2>>, <<"flags", 10, 2>>, <<"ciaddr", 12, 4>>, <<"yiaddr", 16, 4>>,
    <<"siaddr", 20, 4>>, <<"giaddr", 24, 4>>, <<"chaddr", 28, 6>>, <<"cookie", 236, 4>> }

-----------------------------------------------------------------------------
(***************************************************************************)
(* Parts that belong to a header.  The flags of a part say which of its    *)
(* kind it is; the data of one is everything behind its type and length.   *)
(***************************************************************************)

Options(p, header) ==
  { o \in DOMAIN p : o > header /\ o < After(p, header) }

IpOptionTable(p, o) ==
  { <<"kind", 0, 1>>, <<"length", 1, 1>> }
    \cup CASE At(p, o) \in { "ip4alert", "ip6alert" } -> { <<"alert", 2, 2>> }
           [] At(p, o) = "ip6jumbo" -> { <<"jumbo", 2, 4>> }
           [] OTHER -> { <<"data", 2, p[o].bytes - 2>> }

\* The edges of a block of a SACK option.
LeftEdge  == << "left1", "left2", "left3", "left4" >>
RightEdge == << "right1", "right2", "right3", "right4" >>
SackEdges(n) == { <<LeftEdge[n], 8*n - 6, 4>>, <<RightEdge[n], 8*n - 2, 4>> }

TcpOptionTable(p, o) ==
  IF At(p, o) = "nop" THEN { <<"kind", 0, 1>> }
  ELSE { <<"kind", 0, 1>>, <<"length", 1, 1>> }
         \cup CASE At(p, o) = "mss"   -> { <<"mss", 2, 2>> }
                [] At(p, o) = "scale" -> { <<"scale", 2, 1>> }
                [] At(p, o) = "stamp" -> { <<"value", 2, 4>>, <<"echo", 6, 4>> }
                [] At(p, o) = "sack"  ->
                     UNION { SackEdges(n) : n \in 1..((p[o].bytes - 2) \div 8) }
                [] OTHER -> {}

ChunkTable(p, o) ==
  { <<"type", 0, 1>>, <<"flags", 1, 1>>, <<"length", 2, 2>> }
    \cup IF Flag(p, o, "data")
         THEN { <<"tsn", 4, 4>>, <<"stream", 8, 2>>, <<"order", 10, 2>>, <<"ppid", 12, 4>> }
         ELSE {}

GreWordTable(p, o) ==
  CASE At(p, o) = "grecsum" -> { <<"checksum", 0, 2>>, <<"reserved", 2, 2>> }
    [] At(p, o) = "grekey"  -> { <<"key", 0, 4>> }
    [] At(p, o) = "greseq"  -> { <<"seq", 0, 4>> }

GtpuWordTable(p, o) ==
  CASE At(p, o) = "gtpword" -> { <<"seq", 0, 2>>, <<"npdu", 2, 1>>, <<"next", 3, 1>> }
    [] At(p, o) = "gtpudp"  -> { <<"length", 0, 1>>, <<"port", 1, 2>>, <<"next", p[o].bytes - 1, 1>> }
    [] At(p, o) = "gtpext"  ->
         { <<"length", 0, 1>>, <<"payload", 1, p[o].bytes - 2>>, <<"next", p[o].bytes - 1, 1>> }

IcmpTable(p, o) ==
  { <<"type", 0, 1>>, <<"code", 1, 1>>, <<"checksum", 2, 2>> }
    \cup CASE Flag(p, o, "echo") -> { <<"id", 4, 2>>, <<"seq", 6, 2>> }
           [] At(p, o) = "icmp6" /\ (Flag(p, o, "ns") \/ Flag(p, o, "na")) ->
                { <<"flags", 4, 4>>, <<"target", 8, 16>> }
           [] At(p, o) = "icmp6" /\ Flag(p, o, "ra") ->
                { <<"hops", 4, 1>>, <<"flags", 5, 1>>, <<"lifetime", 6, 2>>,
                  <<"reachable", 8, 4>>, <<"retrans", 12, 4>> }
           [] OTHER -> {}

NdOptionTable(p, o) ==
  { <<"kind", 0, 1>>, <<"length", 1, 1>> }
    \cup CASE At(p, o) = "ndlink" -> { <<"mac", 2, 6>> }
           [] At(p, o) = "ndprefix" ->
                { <<"plen", 2, 1>>, <<"onlink", 3, 1>>, <<"auto", 3, 1>>, <<"valid", 4, 4>>,
                  <<"preferred", 8, 4>>, <<"prefix", 16, 16>> }

\* A question is its name, type and class; an answer with an IPv4 address has
\* fourteen bytes behind its name.
DnsRecordTable(p, o) ==
  LET name == p[o].bytes - (IF At(p, o) = "question" THEN 4 ELSE 14) IN
  { <<"name", 0, name>>, <<"type", name, 2>>, <<"class", name + 2, 2>> }
    \cup IF At(p, o) = "question" THEN {}
         ELSE { <<"ttl", name + 4, 4>>, <<"rdlength", name + 8, 2>>, <<"addr", name + 10, 4>> }

DhcpOptionTable(p, o) ==
  { <<"code", 0, 1>>, <<"length", 1, 1>> }
    \cup { <<field, 2, p[o].bytes - 2>> : field \in p[o].flags }

\* Extension headers: the fragment, authentication and routing headers field
\* by field, the others as their next header, their length and their options.
ExtensionTable(p, o) ==
  CASE At(p, o) = "fragment" ->
         { <<"next", 0, 1>>, <<"reserved", 1, 1>>, <<"offset", 2, 2>>, <<"bits", 2, 2>>,
           <<"more", 2, 2>>, <<"id", 4, 4>> }
    [] At(p, o) = "auth" ->
         { <<"next", 0, 1>>, <<"length", 1, 1>>, <<"reserved", 2, 2>>, <<"spi", 4, 4>>, <<"seq", 8, 4>> }
    [] At(p, o) = "routing" ->
         { <<"next", 0, 1>>, <<"length", 1, 1>>, <<"type", 2, 1>>, <<"left", 3, 1>>,
           <<"data", 4, p[o].header - 4>> }
    [] OTHER -> { <<"next", 0, 1>>, <<"length", 1, 1>> }

-----------------------------------------------------------------------------
(***************************************************************************)
(* The walk that adds them.                                                *)
(***************************************************************************)

\* The parts of a header, each under its header's prefix.
PartRows(p, header, within, Table(_, _)) ==
  UNION { RowsOf(Layer(within, At(p, o), 0), o, Table(p, o)) : o \in Options(p, header) }

\* Tags and labels in a row, numbered.
Numbered(p, offset, within, kind, most, table) ==
  UNION { RowsOf(Layer(within, kind, n), offset + 4*(n - 1), table) :
            n \in { m \in 1..most : \A i \in 1..m : At(p, offset + 4*(i - 1)) = kind } }

RECURSIVE ExtensionRows(_, _, _, _)
\* addIpv6Rows: the extension headers, at most eight.
ExtensionRows(p, o, within, left) ==
  IF left = 0 \/ At(p, o) \notin Extension THEN {}
  ELSE RowsOf(Layer(within, At(p, o), 0), o, ExtensionTable(p, o))
         \cup PartRows(p, o, within, IpOptionTable)
         \cup ExtensionRows(p, After(p, o), within, left - 1)

RECURSIVE PastAll(_, _, _)
PastAll(p, o, left) ==
  IF left = 0 \/ At(p, o) \notin Extension THEN o ELSE PastAll(p, After(p, o), left - 1)

TcpRows(p, o, within) ==
  RowsOf(Layer(within, "tcp", 0), o, TcpTable) \cup PartRows(p, o, within, TcpOptionTable)
SctpRows(p, o, within) ==
  RowsOf(Layer(within, "sctp", 0), o, SctpTable) \cup PartRows(p, o, within, ChunkTable)
IcmpRows(p, o, within) ==
  RowsOf(Layer(within, At(p, o), 0), o, IcmpTable(p, o)) \cup PartRows(p, o, within, NdOptionTable)

DnsRows(p, o) ==
  RowsOf(Layer("", "dns", 0), o, DnsTable) \cup PartRows(p, o, "", DnsRecordTable)
DhcpRows(p, o) ==
  RowsOf(Layer("", "dhcp", 0), o, DhcpTable) \cup PartRows(p, o, "", DhcpOptionTable)

RECURSIVE IpRows(_, _, _), FrameRows(_, _, _)

\* addGreRows: what GRE carries is "Inner", at every depth.
GreRows(p, o) ==
  RowsOf(Layer("", "gre", 0), o, GreTable) \cup PartRows(p, o, "", GreWordTable)
    \cup IpRows(p, After(p, o), "Inner")
VxlanRows(p, o) ==
  RowsOf(Layer("", "vxlan", 0), o, VxlanTable) \cup FrameRows(p, o + 8, "VXLAN Inner")
GtpuRows(p, o) ==
  RowsOf(Layer("", "gtpu", 0), o, GtpuTable) \cup PartRows(p, o, "", GtpuWordTable)
    \cup IpRows(p, After(p, o), "GTP-U Inner")

\* The payload of a UDP datagram is decoded under the outermost IP header only.
UdpRows(p, o, within) ==
  RowsOf(Layer(within, "udp", 0), o, UdpTable)
    \cup IF within # "" THEN {}
         ELSE CASE At(p, o + 8) = "vxlan" -> VxlanRows(p, o + 8)
                [] At(p, o + 8) = "gtpu"  -> GtpuRows(p, o + 8)
                [] At(p, o + 8) = "dns"   -> DnsRows(p, o + 8)
                [] At(p, o + 8) = "dhcp"  -> DhcpRows(p, o + 8)
                [] OTHER -> {}

L4Rows(p, o, within) ==
  CASE At(p, o) = "udp"  -> UdpRows(p, o, within)
    [] At(p, o) = "tcp"  -> TcpRows(p, o, within)
    [] At(p, o) = "sctp" -> SctpRows(p, o, within)
    [] At(p, o) \in { "icmp4", "icmp6" } -> IcmpRows(p, o, within)
    [] At(p, o) = "gre"  -> GreRows(p, o)
    [] OTHER -> {}

\* addIpv4Rows and addIpv6Rows.
IpRows(p, o, within) ==
  CASE At(p, o) = "ip4" ->
         RowsOf(Layer(within, "ip4", 0), o, Ipv4Table)
           \cup PartRows(p, o, within, IpOptionTable)
           \cup L4Rows(p, After(p, o), within)
    [] At(p, o) = "ip6" ->
         RowsOf(Layer(within, "ip6", 0), o, Ipv6Table)
           \cup ExtensionRows(p, o + 40, within, MaxExtensions)
           \cup L4Rows(p, PastAll(p, o + 40, MaxExtensions), within)
    [] At(p, o) = "arp" -> RowsOf(Layer(within, "arp", 0), o, ArpTable)
    [] OTHER -> {}

\* addEthernetFrameRows: a frame inside VXLAN, its tags but no labels.
FrameRows(p, o, within) ==
  RowsOf(Layer(within, "eth", 0), o, MacTable)
    \cup Numbered(p, o + 14, within, "vlan", MaxTags, TagTable)
    \cup IpRows(p, Skip(p, o + 14, "vlan", MaxTags), within)

\* buildRawPacketFieldRows: the whole packet.  ARP behind labels is not decoded.
Rows(p) ==
  LET l2 == Skip(p, 14, "vlan", MaxTags)
      l3 == EthernetL3(p, 0)
  IN  RowsOf(Layer("", "eth", 0), 0, MacTable)
        \cup Numbered(p, 14, "", "vlan", MaxTags, TagTable)
        \cup Numbered(p, l2, "", "mpls", MaxLabels, LabelTable)
        \cup IF At(p, l3) = "arp" /\ l3 # l2 THEN {} ELSE IpRows(p, l3, "")
=============================================================================
