---------------------------- MODULE MCPacketEditor ----------------------------
(* An instance of PacketEditor for TLC *)
EXTENDS PacketEditor

(* Every layout once, and those that push others along in several places. *)
Udp(with, vlan, mpls) == Stream("IPv4", "UDP", "none", 4, with, vlan, mpls)
AllTcpOptions == { "mss", "sackok", "sack", "stamp", "scale" }
MCStreams ==
  { Stream("Ethernet", "none", "none", 4, {}, v, 0) : v \in 0..1 }
    \cup { Stream("ARP", "none", "none", 4, {}, v, 0) : v \in 0..2 }
    \cup { Udp({}, v, m) : v \in 0..2, m \in 0..1 }
    \cup { Stream("IPv6", "UDP", "none", 4, {}, 1, m) : m \in { 0, 3 } }
    \cup { Stream("IPv4", "TCP", "none", 4, w, 0, 0) :
             w \in { {}, AllTcpOptions, { "mss", "scale" }, { "sackok", "stamp" }, { "sack" } } }
    \cup { Stream("IPv6", "TCP", "none", 4, w, 1, 0) : w \in { {}, AllTcpOptions } }
    \cup { Stream(l3, "SCTP", "none", 4, {}, 0, 1) : l3 \in { "IPv4", "IPv6" } }
    \cup { Stream(l3, "UDP", "dns", 4, { "answer" }, v, 0) : l3 \in { "IPv4", "IPv6" }, v \in 0..1 }
    \cup { Stream("IPv4", "UDP", "dhcp", 4, w, 0, 0) :
             w \in { {}, { "hostname", "server", "lease" },
                     { "params", "hostname", "requested", "server", "lease", "renewal", "rebinding" } } }
    \cup { Stream("IPv4", "ICMP", "echo", 4, {}, 0, 0), Stream("IPv6", "ICMPv6", "echo", 4, {}, 0, 0),
           Stream("IPv6", "ICMPv6", "rs", 4, { "link" }, 0, 0),
           Stream("IPv6", "ICMPv6", "ra", 4, { "link", "prefix" }, 1, 0),
           Stream("IPv6", "ICMPv6", "ns", 4, { "link" }, 0, 0), Stream("IPv6", "ICMPv6", "na", 4, {}, 0, 0) }
    \cup { Stream("IPv4", "UDP", "vxlan", v, {}, 1, 0) : v \in { 4, 6 } }
    \cup { Stream("IPv4", "UDP", "gtpu", v, w, 0, 0) : v \in { 4, 6 }, w \in { {}, { "seq" }, { "npdu", "ext" } } }
    \cup { Stream("IPv4", "GRE", "none", v, w, 0, 0) :
             v \in { 4, 6 }, w \in { {}, { "greseq" }, { "grekey", "greseq" }, { "grecsum", "grekey" } } }

(* Packets no stream is built as, pasted: what only the bytes can have. *)
Eth == Plain("eth", 14)
Tag == Plain("vlan", 4)
Ip4 == Plain("ip4", 20)
Ip6 == Plain("ip6", 40)
SummedUdp == Plain("udp", 8)
Data == Plain("data", 4)
Pasted ==
  << Eth \o Tag \o Ip4 \o Plain("ip4opt", 4) \o Plain("ip4alert", 4) \o SummedUdp \o Data,
     Eth \o Ip4 \o Plain("ip4alert", 4) \o TcpParts(Stream("IPv4", "TCP", "none", 4, AllTcpOptions, 0, 0)),
     Eth \o Ip6 \o Plain("hopopt", 2) \o Plain("ip6alert", 4) \o Plain("ip6opt", 2) \o Plain("hopopt", 2)
         \o Plain("ip6jumbo", 6) \o Plain("routing", 24) \o Plain("auth", 24) \o SummedUdp \o Data,
     Eth \o Ip6 \o Plain("fragment", 8) \o Plain("tcp", 20) \o Data,
     Eth \o Plain("mpls", 4) \o Ip4 \o Plain("tcp", 20) \o Plain("nop", 1) \o Plain("nop", 1)
         \o Plain("sack", 34) \o Data,
     Eth \o Ip4 \o SummedUdp \o Plain("vxlan", 8) \o Eth \o Tag \o Tag \o Ip4 \o Plain("ip4opt", 4)
         \o Plain("tcp", 20) \o Data,
     Eth \o Ip6 \o SummedUdp \o Plain("vxlan", 8) \o Eth \o Tag \o Plain("arp", 28),
     Eth \o Ip4 \o SummedUdp \o Plain("gtpu", 8) \o Plain("gtpword", 4) \o Plain("gtpext", 8)
         \o Plain("gtpudp", 4) \o Ip6 \o Plain("tcp", 20) \o Data,
     Eth \o Ip4 \o Plain("gre", 4) \o Plain("grecsum", 4) \o Plain("greseq", 4) \o Ip4
         \o << Part("icmp4", 8, { "echo" }) >> \o Data,
     Eth \o Ip6 \o Plain("gre", 4) \o Plain("grekey", 4) \o Ip6 \o SummedUdp \o Data,
     Eth \o Ip4 \o Plain("gre", 4) \o Ip4 \o Plain("tcp", 20) \o Data,
     Eth \o << Part("ip4", 20, { "fragmented" }) >> \o Data,
     Eth \o Ip6 \o << Part("icmp6", 16, { "ra" }) >> \o Plain("ndprefix", 32) \o Plain("ndlink", 8),
     Eth \o Ip4 \o SummedUdp \o Plain("dhcp", 240) \o DhcpOption("server", 4) \o DhcpOption("client", 7),
     Eth \o Ip4 \o << Part("sctp", 12, {}) >> \o << Part("chunk", 16, { "data" }) >> \o Data >>

(* Pasted with checksums that are all wrong, onto a stream of packet type
   "Ethernet" and onto one of another. *)
Broken(p) == Content(p, [l \in Places(p) |-> IF l.word = "sum" THEN 1 ELSE 0])
Hosts ==
  { Stream("Ethernet", "none", "none", 4, {}, 0, 0), Udp({}, 0, 0) }
MCTyped(s) ==
  IF s \in Hosts THEN { Broken(Packet(Pasted[n], IF n = 1 THEN 6 ELSE 0)) : n \in DOMAIN Pasted } ELSE {}

(* Two edits in a row where packets are pasted, one elsewhere. *)
MCMaxEdits(s) == IF s \in Hosts THEN 2 ELSE 1

(* Two previews at a time for one stream with neighbours, one elsewhere. *)
MCMaxRenders(s) == IF s = Udp({}, 2, 1) THEN 2 ELSE 1

(* A capture of what a stream is built as, or of a packet with IPv4 options. *)
MCImported(s) ==
  CASE s \in Hosts -> { Rendered(s, NoContent) }
    [] s = Udp({}, 1, 0) -> { Broken(Packet(Pasted[1], 0)) }
    [] OTHER -> {}
=============================================================================
