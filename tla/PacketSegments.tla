--------------------------- MODULE PacketSegments ---------------------------
(***************************************************************************)
(* The packets the packet editor works on, and the walks over their bytes  *)
(* that rawPacketModel.ts repeats in every function that looks for a       *)
(* header: from the Ethernet header through VLAN tags and MPLS labels to   *)
(* the first IP header, over IPv4 options and IPv6 extension headers to    *)
(* the transport, over the optional words of GRE and GTP-U to what they    *)
(* carry.                                                                  *)
(*                                                                         *)
(* A packet is a function from byte offsets to what starts there: a header *)
(* or a part of one that has a length of its own (an option, an optional   *)
(* word, a resource record).  The code reads a protocol number, an         *)
(* EtherType or a port to learn what comes next; here the kind of what     *)
(* starts at the computed offset says it.  Packets are complete: every     *)
(* length field agrees with the bytes, so the code's bounds checks hold    *)
(* and are left out, and an offset computed wrongly finds nothing.         *)
(***************************************************************************)
EXTENDS Integers, Sequences, FiniteSets, SequencesExt, TLC

\* A part of a packet: its kind, its bytes, and the flags of it that decide
\* how the code reads on.
Part(kind, bytes, flags) == [kind |-> kind, bytes |-> bytes, flags |-> flags]

\* Parts that belong to the header in front of them.
Belonging ==
  { "ip4opt", "ip4alert", "ip6opt", "ip6alert", "ip6jumbo",
    "mss", "scale", "sackok", "sack", "stamp", "nop",
    "grecsum", "grekey", "greseq", "gtpword", "gtpext", "gtpudp",
    "chunk", "ndlink", "ndprefix", "question", "answer",
    "dhcpopt" }

Extension == { "hopopt", "dstopt", "mobility", "routing", "fragment", "auth" }

Ip == { "ip4", "ip6" }

Outside == Part("none", 0, {})

RECURSIVE OwnBytes(_)
\* The bytes of the parts at the front of a sequence that belong to the
\* header before it.
OwnBytes(parts) ==
  IF parts = << >> \/ Head(parts).kind \notin Belonging THEN 0
  ELSE Head(parts).bytes + OwnBytes(Tail(parts))

RECURSIVE PartsFrom(_, _, _)
PartsFrom(parts, at, end) ==
  IF parts = << >> THEN << >>
  ELSE LET part == Head(parts) IN
       ( at :> [ kind |-> part.kind, bytes |-> part.bytes, flags |-> part.flags,
                 header |-> part.bytes + OwnBytes(Tail(parts)),
                 end |-> end ] )
         @@ PartsFrom(Tail(parts), at + part.bytes, end)

RECURSIVE Bytes(_)
Bytes(parts) == IF parts = << >> THEN 0 ELSE Head(parts).bytes + Bytes(Tail(parts))

\* The packet of a sequence of parts followed by `padding' bytes that no
\* length field counts: `header' is the length of a header with everything
\* that belongs to it, `end' the end of what the length fields cover.
Packet(parts, padding) ==
  LET end == Bytes(parts) IN
  PartsFrom(parts \o IF padding = 0 THEN << >> ELSE << Part("padding", padding, {}) >>,
            0, end)

\* What starts at an offset.
At(p, offset) == IF offset \in DOMAIN p THEN p[offset].kind ELSE "none"
Flag(p, offset, flag) == offset \in DOMAIN p /\ flag \in p[offset].flags
After(p, offset) == offset + p[offset].header

None == -1
Found(offset) == offset # None

RECURSIVE Skip(_, _, _, _)
\* Past at most `most' consecutive parts of one kind.
Skip(p, offset, kind, most) ==
  IF most = 0 \/ At(p, offset) # kind THEN offset
  ELSE Skip(p, After(p, offset), kind, most - 1)

-----------------------------------------------------------------------------
(***************************************************************************)
(* The walks.                                                              *)
(***************************************************************************)

MaxTags == 4
MaxLabels == 8
MaxExtensions == 8

\* What an Ethernet header carries behind its tags and labels.
EthernetL3(p, ethernet) ==
  LET tagged == Skip(p, ethernet + 14, "vlan", MaxTags)
  IN  Skip(p, tagged, "mpls", MaxLabels)

\* An IPv4 header's length with its options.
Ipv4HeaderLength(p, ip) == p[ip].header

RECURSIVE PastExtensions(_, _, _, _)
PastExtensions(p, offset, protocol, left) ==
  IF left = 0 THEN None
  ELSE IF At(p, offset) = protocol THEN offset
  ELSE IF At(p, offset) \in Extension
       THEN PastExtensions(p, After(p, offset), protocol, left - 1)
  ELSE None

\* The header of `protocol' behind an IPv6 header and its extension headers.
Ipv6L4(p, ip, protocol) ==
  IF At(p, ip) # "ip6" THEN None ELSE PastExtensions(p, ip + 40, protocol, MaxExtensions)

\* What a version 0 GRE header without routing carries.
GrePayload(p, gre) ==
  IF At(p, gre) # "gre" \/ Flag(p, gre, "routed") \/ Flag(p, gre, "pptp") THEN None
  ELSE After(p, gre)

\* What a GTP-U header of version 1 carries: a control message carries nothing.
GtpuPayload(p, gtpu) ==
  IF At(p, gtpu) # "gtpu" \/ Flag(p, gtpu, "prime") THEN None
  ELSE LET payload == After(p, gtpu) IN
       IF payload < p[gtpu].end THEN payload ELSE None
=============================================================================
