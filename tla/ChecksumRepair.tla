--------------------------- MODULE ChecksumRepair ---------------------------
(***************************************************************************)
(* What the packet editor does to the checksums of a raw packet after a    *)
(* field of it was edited (rawPacketModel.ts, repairRawPacketChecksums):   *)
(* six passes in a fixed order, each of which collects its targets from    *)
(* the packet and writes them one after the other.                         *)
(*                                                                         *)
(* The values of a packet are those of the words a checksum tells apart:   *)
(* the addresses of an IP header, the checksum field of a header, and      *)
(* everything else of a part as one word.  Sums are taken modulo M, and a  *)
(* checksum is right when it makes the sum of what it covers zero.  That   *)
(* is the arithmetic of the one's complement sum; the CRC of SCTP and the  *)
(* zero that UDP writes as ffff are abstracted to it.                      *)
(***************************************************************************)
EXTENDS PacketSegments

CONSTANT M
ASSUME ModulusAssumption == M \in Nat /\ M > 1

Checksummed == { "ip4", "udp", "tcp", "icmp4", "icmp6", "sctp", "grecsum" }

\* A place of a packet that holds a value.
Place(offset, word) == [offset |-> offset, word |-> word]
Places(p) ==
  { Place(o, "data") : o \in DOMAIN p }
    \cup { Place(o, "addr") : o \in { x \in DOMAIN p : At(p, x) \in Ip } }
    \cup { Place(o, "sum") : o \in { x \in DOMAIN p : At(p, x) \in Checksummed } }

\* The sum of the values in a range of bytes, without one place of it.
SumOf(values, places) == MapThenSumSet(LAMBDA l : values[l], places) % M
NoPlace == Place(None, "none")
Covered(p, from, to, hole) ==
  { l \in Places(p) : from <= l.offset /\ l.offset < to /\ l # hole }
Right(p, values, from, to, hole, extra) ==
  (M - SumOf(values, Covered(p, from, to, hole) \cup extra)) % M

-----------------------------------------------------------------------------
(***************************************************************************)
(* The walk of the collectors.                                             *)
(***************************************************************************)

\* What a UDP datagram tunnels: the IP header in a VXLAN or a GTP-U payload.
UdpTunnelIp(p, udp) ==
  CASE At(p, udp + 8) = "vxlan" -> EthernetL3(p, udp + 16)
    [] At(p, udp + 8) = "gtpu"  -> GtpuPayload(p, udp + 8)
    [] OTHER -> None

\* The transport of an IP header, its header walked over.
Transport(p, ip) ==
  IF At(p, ip) = "ip4" THEN ip + Ipv4HeaderLength(p, ip)
  ELSE LET found == { Ipv6L4(p, ip, protocol) :
                        protocol \in { "udp", "tcp", "icmp6", "sctp", "gre" } } \ { None }
       IN  IF found = {} THEN None ELSE CHOOSE o \in found : TRUE

\* The IP header a transport carries in its turn.
Inside(p, l4) ==
  CASE At(p, l4) = "gre" -> GrePayload(p, l4)
    [] At(p, l4) = "udp" -> UdpTunnelIp(p, l4)
    [] OTHER -> None

RECURSIVE Nested(_, _)
\* The IP headers with their transports, from the outside in: processIpv4 and
\* processIpv6.  A fragment of an IPv4 packet ends the walk.
Nested(p, ip) ==
  IF At(p, ip) \notin Ip \/ Flag(p, ip, "fragmented") THEN << >>
  ELSE LET l4 == Transport(p, ip) IN
       IF l4 = None THEN << >>
       ELSE << [ip |-> ip, l4 |-> l4, limit |-> p[ip].end] >>
              \o Nested(p, Inside(p, l4))

Walked(p) == Nested(p, EthernetL3(p, 0))

\* The IPv4 headers whose checksum is repaired: the first, fragment or not,
\* and one that its GRE or UDP payload carries.
Ipv4HeaderOffsets(p) ==
  LET outer == EthernetL3(p, 0)
      inner == IF At(p, outer) \in Ip /\ Transport(p, outer) # None
               THEN Inside(p, Transport(p, outer)) ELSE None
  IN  SelectSeq(<< outer, inner >>, LAMBDA o : At(p, o) = "ip4")

IcmpTargets(p) ==
  SelectSeq(Walked(p), LAMBDA t : At(p, t.l4) = (IF At(p, t.ip) = "ip4" THEN "icmp4" ELSE "icmp6"))

SctpTargets(p) == SelectSeq(Walked(p), LAMBDA t : At(p, t.l4) = "sctp")

\* GRE headers with a checksum word and something behind their words.
GreTargets(p) ==
  SelectSeq(Walked(p),
            LAMBDA t : /\ GrePayload(p, t.l4) # None
                       /\ GrePayload(p, t.l4) < t.limit
                       /\ At(p, t.l4 + 4) = "grecsum")

\* UDP and TCP.  A zero checksum of UDP over IPv4 means none and is left.
TransportTargets(p) ==
  SelectSeq(Walked(p),
            LAMBDA t : \/ At(p, t.l4) = "tcp"
                       \/ /\ At(p, t.l4) = "udp"
                          /\ ~ (At(p, t.ip) = "ip4" /\ Flag(p, t.l4, "unsummed")))

-----------------------------------------------------------------------------
(***************************************************************************)
(* The checksums, and the passes that write them.                          *)
(***************************************************************************)

Ipv4HeaderChecksum(p, values, ip) ==
  Right(p, values, ip, ip + Ipv4HeaderLength(p, ip), Place(ip, "sum"), {})

\* UDP and TCP cover the addresses of their IP header.
TransportChecksum(p, values, t) ==
  Right(p, values, t.l4, t.limit, Place(t.l4, "sum"), { Place(t.ip, "addr") })

IcmpChecksum(p, values, t) ==
  Right(p, values, t.l4, t.limit, Place(t.l4, "sum"),
        IF At(p, t.ip) = "ip6" THEN { Place(t.ip, "addr") } ELSE {})

SctpChecksum(p, values, t) == Right(p, values, t.l4, t.limit, Place(t.l4, "sum"), {})

GreChecksum(p, values, t) == Right(p, values, t.l4, t.limit, Place(t.l4 + 4, "sum"), {})

RepairIpv4(p, values) ==
  FoldLeft(LAMBDA v, ip : [v EXCEPT ![Place(ip, "sum")] = Ipv4HeaderChecksum(p, v, ip)],
           values, Ipv4HeaderOffsets(p))
RepairIcmp(p, values) ==
  FoldLeft(LAMBDA v, t : [v EXCEPT ![Place(t.l4, "sum")] = IcmpChecksum(p, v, t)],
           values, IcmpTargets(p))
RepairSctp(p, values) ==
  FoldLeft(LAMBDA v, t : [v EXCEPT ![Place(t.l4, "sum")] = SctpChecksum(p, v, t)],
           values, SctpTargets(p))
RepairGre(p, values) ==
  FoldLeft(LAMBDA v, t : [v EXCEPT ![Place(t.l4 + 4, "sum")] = GreChecksum(p, v, t)],
           values, GreTargets(p))
RepairTransport(p, values) ==
  FoldLeft(LAMBDA v, t : [v EXCEPT ![Place(t.l4, "sum")] = TransportChecksum(p, v, t)],
           values, TransportTargets(p))

\* Mutant: every pass once.
RepairChecksumsOnce(p, values) ==
  RepairGre(p, RepairTransport(p, RepairSctp(p, RepairIcmp(p, RepairIpv4(p, values)))))

\* Transports once more at the end: the first time a tunnel's own transport
\* was summed over a payload the later passes still changed.
RepairChecksums(p, values) ==
  LET ipv4      == RepairIpv4(p, values)
      icmp      == RepairIcmp(p, ipv4)
      sctp      == RepairSctp(p, icmp)
      transport == RepairTransport(p, sctp)
      gre       == RepairGre(p, transport)
  IN  RepairTransport(p, gre)

-----------------------------------------------------------------------------
(***************************************************************************)
(* What the checksums of a packet have to be, told from the parts alone.   *)
(***************************************************************************)

\* The IP header in front of a part.
IpBefore(p, offset) ==
  LET before == { o \in DOMAIN p : o < offset /\ At(p, o) \in Ip }
  IN  CHOOSE o \in before : \A other \in before : other <= o

\* A transport that is cut into fragments has no checksum of its own in any
\* one of them.
Fragmented(p, offset) ==
  \E o \in DOMAIN p :
     o < offset /\ (Flag(p, o, "fragmented") \/ At(p, o) = "fragment")

RightAt(p, values, o) ==
  LET ip == IpBefore(p, o) IN
  CASE At(p, o) = "ip4" ->
         SumOf(values, Covered(p, o, o + p[o].header, NoPlace)) = 0
    [] At(p, o) = "grecsum" ->
         SumOf(values, Covered(p, o - 4, p[o].end, NoPlace)) = 0
    [] At(p, o) \in { "icmp4", "sctp" } ->
         SumOf(values, Covered(p, o, p[o].end, NoPlace)) = 0
    [] OTHER ->
         SumOf(values, Covered(p, o, p[o].end, NoPlace) \cup { Place(ip, "addr") }) = 0

\* The checksums that are wrong.
Wrong(p, values) ==
  { o \in DOMAIN p :
      /\ At(p, o) \in Checksummed
      /\ At(p, o) # "ip4" => ~ Fragmented(p, o)
      /\ ~ (At(p, o) = "udp" /\ Flag(p, o, "unsummed"))
      /\ ~ RightAt(p, values, o) }

\* A packet right in every checksum, and the same with one value changed.
Consistent(p) == [l \in Places(p) |-> 0]
Changed(values, place) == [values EXCEPT ![place] = (@ + 1) % M]
=============================================================================
