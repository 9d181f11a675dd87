----------------------------- MODULE PacketEditor -----------------------------
(***************************************************************************)
(* The packet editor and the field engine of the Stream Builder at work on *)
(* one stream: the stream is edited field by field until it is switched to *)
(* advanced mode, which pins the bytes of its rendered packet; from then   *)
(* on the bytes are edited, in drafts that are kept per packet, applied,   *)
(* given a field engine program, and given up again for the fields.        *)
(*                                                                         *)
(* A content is a packet with the values of its words.  A preview is       *)
(* rendered by the server from the stream as it was when it was asked for; *)
(* answers may come late and out of order.                                 *)
(***************************************************************************)
EXTENDS ChecksumRepair, TunnelTargets

CONSTANTS
  Streams,      \* the streams a stream may be edited into
  Typed(_),     \* the contents a person types or pastes as a draft of a stream
  Imported(_),  \* the contents with which a stream comes out of a capture file
  MaxEdits(_),  \* bound: edits of fields and of drafts, made in a stream
  MaxDrafts,    \* bound: packets with a draft
  MaxRenders(_) \* bound: previews of a stream asked for and not answered

VARIABLES
  stream,     \* the stream's switches
  advanced,   \* advanced_mode
  bytes,      \* packet_binary_base64
  vm,         \* advanced_vm: none, an empty one, or a program
  preview,    \* the packet preview on display
  rendering,  \* the previews asked for: the stream and bytes they are made from
  busy,       \* isProfileWorkbenchBusy
  drafts,     \* the drafts that differ from their packet, by context key
  edits       \* how many edits were made

vars == <<stream, advanced, bytes, vm, preview, rendering, busy, drafts, edits>>

Content(p, values) == [packet |-> p, values |-> values]
NoContent == Content(NoBytes, << >>)

\* Mutant: the packet is rebuilt from the fields, with the values of the bytes.
RenderedMixed(s, b) ==
  Content(BuiltPacket(s), IF b # NoContent THEN b.values ELSE Consistent(BuiltPacket(s)))

Rendered(s, b) ==
  IF b # NoContent THEN b ELSE Content(BuiltPacket(s), Consistent(BuiltPacket(s)))

\* What the editor's drafts and rows are about: the pinned bytes or the
\* preview; and the scope under which a draft of it is kept.
Source == IF bytes # NoContent THEN bytes ELSE preview
ContextKey == <<stream.l3, stream.l4, Source>>
Draft == IF ContextKey \in DOMAIN drafts THEN drafts[ContextKey] ELSE Source
SetDraft(content) ==
  /\ Cardinality({ ContextKey } \cup DOMAIN drafts) <= MaxDrafts
  /\ drafts' = (ContextKey :> content) @@ drafts

-----------------------------------------------------------------------------
(***************************************************************************)
(* Edits field by field, and previews.                                     *)
(***************************************************************************)

\* A new stream, or one out of a capture file, which comes with its preview.
Init ==
  /\ stream \in Streams
  /\ advanced = FALSE
  /\ bytes \in { NoContent } \cup Imported(stream)
  /\ vm = "none"
  /\ preview = bytes
  /\ rendering = << >>
  /\ busy = FALSE
  /\ drafts = << >>
  /\ edits = 0

MayEdit == edits < MaxEdits(stream) /\ edits' = edits + 1

\* Mutant: the bytes go, the advanced mode they were pinned for stays.
handleStreamChangeHalfway(patch) ==
  /\ bytes' = patch.bytes
  /\ UNCHANGED advanced
  /\ vm' = patch.vm
  /\ preview' = NoContent

\* Every change of the stream takes the previews with it.
handleStreamChange(patch) ==
  /\ bytes' = patch.bytes
  /\ advanced' = patch.advanced
  /\ vm' = patch.vm
  /\ preview' = NoContent

Cleared == [bytes |-> NoContent, advanced |-> FALSE, vm |-> "none"]
Pinned(content, program) == [bytes |-> content, advanced |-> TRUE, vm |-> program]

\* Neighbouring streams: one control of the Stream Builder apart.
Neighbours(s, t) == Cardinality({ f \in DOMAIN s : s[f] # t[f] }) = 1

\* The panels of the fields are on screen in simple mode only; a change of
\* any of them invalidates bytes that were imported.
EditStream ==
  /\ ~ advanced /\ MayEdit
  /\ \E t \in Streams : Neighbours(stream, t) /\ stream' = t
  /\ handleStreamChange(Cleared)
  /\ UNCHANGED <<rendering, busy, drafts>>

\* Selecting a tab with a packet asks for its preview, busy or not.
handleRenderProfilePreview ==
  /\ Len(rendering) < MaxRenders(stream)
  /\ rendering' = Append(rendering, [stream |-> stream, bytes |-> bytes])
  /\ busy' = TRUE
  /\ UNCHANGED <<stream, advanced, bytes, vm, preview, drafts, edits>>

\* An answer, whichever comes first: a packet, or no previews at all from a
\* server that refuses, or a request that fails and leaves the old one.
PreviewAnswered ==
  /\ \E i \in DOMAIN rendering :
       /\ rendering' = RemoveAt(rendering, i)
       /\ preview' \in { Rendered(rendering[i].stream, rendering[i].bytes), NoContent, preview }
  /\ busy' = FALSE
  /\ UNCHANGED <<stream, advanced, bytes, vm, drafts, edits>>

-----------------------------------------------------------------------------
(***************************************************************************)
(* Advanced mode.                                                          *)
(***************************************************************************)

KeptVm == IF vm = "none" THEN "empty" ELSE vm

\* Without a packet to pin the switch asks for a preview instead.
SwitchToAdvanced ==
  /\ ~ advanced /\ ~ busy /\ Source # NoContent
  /\ handleStreamChange(Pinned(Source, KeptVm))
  /\ UNCHANGED <<stream, rendering, busy, drafts, edits>>

\* Clearing leaves the preview as the draft of the packet that was pinned.
ClearRawOverride ==
  /\ advanced /\ ~ busy
  /\ handleStreamChange(Cleared)
  /\ SetDraft(preview)
  /\ UNCHANGED <<stream, rendering, busy, edits>>

TypeRawDraft ==
  /\ advanced /\ MayEdit
  /\ \E content \in Typed(stream) : SetDraft(content)
  /\ UNCHANGED <<stream, advanced, bytes, vm, preview, rendering, busy>>

SeedRawDraft ==
  /\ advanced /\ ~ busy /\ preview # NoContent
  /\ SetDraft(preview)
  /\ UNCHANGED <<stream, advanced, bytes, vm, preview, rendering, busy, edits>>

\* A row of the draft is edited: one word of it, and then every checksum that
\* is found.
applyRawPacketFieldEdit(content, place) ==
  Content(content.packet, RepairChecksums(content.packet, Changed(content.values, place)))

EditRawField ==
  /\ advanced /\ ~ busy /\ MayEdit
  /\ \E place \in Places(Draft.packet) : SetDraft(applyRawPacketFieldEdit(Draft, place))
  /\ UNCHANGED <<stream, advanced, bytes, vm, preview, rendering, busy>>

\* The draft becomes the packet.  A program that was made for the packet
\* before stays.
ApplyRawDraft ==
  /\ advanced /\ ~ busy /\ Draft # NoContent
  /\ handleStreamChange(Pinned(Draft, KeptVm))
  /\ SetDraft(Draft)
  /\ UNCHANGED <<stream, rendering, busy, edits>>

ApplyAdvancedVm ==
  /\ advanced /\ ~ busy /\ Source # NoContent
  /\ handleStreamChange(Pinned(Source, "program"))
  /\ UNCHANGED <<stream, rendering, busy, drafts, edits>>

Next ==
  \/ EditStream
  \/ handleRenderProfilePreview
  \/ PreviewAnswered
  \/ SwitchToAdvanced
  \/ ClearRawOverride
  \/ TypeRawDraft
  \/ SeedRawDraft
  \/ EditRawField
  \/ ApplyRawDraft
  \/ ApplyAdvancedVm

Spec == Init /\ [][Next]_vars

-----------------------------------------------------------------------------
(***************************************************************************)
(* What the templates are offered for.                                     *)
(***************************************************************************)

\* The raw draft, and the stream by its fields; a stream without a packet
\* type of its own has nothing but its draft, or its bytes without one.
RawOffered == advanced /\ Draft # NoContent
RawCandidate == RawDraft(stream, Draft.packet)
StructuredCandidate ==
  Candidate(stream,
            CASE stream.l3 # "Ethernet" \/ ~ advanced -> NoBytes
              [] Draft # NoContent -> Draft.packet
              [] OTHER -> bytes.packet)

\* A write inside the bytes of the row it names.
OnRow(rows, w) ==
  \E r \in rows :
     /\ w.layer.within \in { Anywhere, r.layer.within }
     /\ w.layer.kind = r.layer.kind /\ w.layer.nth = r.layer.nth
     /\ w.field = r.field
     /\ r.at <= w.at /\ w.at + w.bytes <= r.at + r.bytes

\* A fixup that recomputes the checksum of the headers the write is in.
FixesItsHeaders(p, w) ==
  LET l3 == w.fix.l2
      l4 == w.fix.l2 + w.fix.l3
  IN  CASE w.fix.type = "none" -> TRUE
        [] w.fix.type = "fix_checksum_ipv4" ->
             /\ At(p, l3) = "ip4" /\ l3 <= w.at /\ w.at < After(p, l3)
             /\ w.field \in { "src", "dst" } => At(p, After(p, l3)) \notin { "udp", "tcp" }
        [] w.fix.type = "fix_checksum_icmpv6" ->
             At(p, l3) = "ip6" /\ At(p, l4) = "icmp6"
        [] OTHER ->
             /\ At(p, l3) \in Ip /\ l3 <= w.at
             /\ w.fix.l4 = UdpType => At(p, l4) = "udp"
             /\ w.fix.l4 = TcpType => At(p, l4) = "tcp"
             /\ ~ \E o \in DOMAIN p : At(p, o) \in Ip /\ l3 < o /\ o <= w.at

\* The switches a raw draft inherits name only what its packet has: with
\* others a template is offered at an offset nothing is at.
SwitchesMatch(c) ==
  LET Has(header, kinds) ==
        Found(header) => \A kind \in stream.with \cap kinds : Found(FirstOption(c.bytes, header, { kind }))
  IN  /\ \A n \in 1..stream.vlan : Found(RawVlanTag(c.bytes, n))
      /\ \A n \in 1..stream.mpls : Found(RawMplsLabel(c.bytes, n))
      /\ Has(RawTcp(c), { "mss", "scale", "stamp", "sack" })
      /\ Has(RawL4(c, "gre"), { "grekey", "greseq" })

\* The candidates the templates are offered for, the packet each is about, and
\* whether its switches can be relied on.
Candidates == { StructuredCandidate } \cup IF RawOffered THEN { RawCandidate } ELSE {}
PacketOf(c) == IF c.bytes = NoBytes THEN BuiltPacket(stream) ELSE c.bytes
Trusted(c) == c.bytes = NoBytes \/ SwitchesMatch(c)

\* Forty bytes is what a program is told of an IPv6 header.
Extended(p) == \E o \in DOMAIN p : At(p, o) = "ip6" /\ At(p, o + 40) \in Extension

-----------------------------------------------------------------------------
(***************************************************************************)
(* Properties.                                                             *)
(***************************************************************************)

IsContent(c) == DOMAIN c = { "packet", "values" } /\ DOMAIN c.values = Places(c.packet)

(* The state is well formed: a content has a value for every word of its
   packet, and the drafts are kept under keys of streams and contents. *)
TypeOK ==
  /\ stream \in Streams /\ advanced \in BOOLEAN /\ busy \in BOOLEAN
  /\ vm \in { "none", "empty", "program" }
  /\ IsContent(bytes) /\ IsContent(preview)
  /\ \A i \in DOMAIN rendering : rendering[i].stream \in Streams /\ IsContent(rendering[i].bytes)
  /\ \A key \in DOMAIN drafts : IsContent(key[3]) /\ IsContent(drafts[key])
  /\ edits \in Nat

(* The page sends a stream the server accepts and makes full use of: an
   advanced stream has its packet (workbench_inputs.py refuses it otherwise),
   and a program is never left on a stream that is not advanced, where
   gui_stream_entry would drop it for one built from the fields. *)
ProgramHasPacket ==
  /\ advanced => bytes # NoContent
  /\ vm # "none" <=> advanced

(* What a template writes lies inside the field it is named for, in the packet
   it is offered for: the offsets the page computes from the switches of a
   stream are those at which the server puts the headers, and the offsets a
   target function finds in the bytes are those the decoded rows have. *)
TargetOnRow ==
  \A c \in { c \in Candidates : Trusted(c) } :
     LET rows == Rows(PacketOf(c)) IN \A w \in Writes(c) : OnRow(rows, w)

(* A write is followed by a fixup of the checksums that cover it, or by none:
   never of another header's, and never with lengths that miss the transport.
   Behind IPv6 extension headers the lengths do miss it. *)
FixupOnHeaders ==
  \A c \in { c \in Candidates : Trusted(c) } :
     LET p == PacketOf(c) IN ~ Extended(p) => \A w \in Writes(c) : FixesItsHeaders(p, w)

\* One tunnel at most, and no fragment of IPv6, which the passes take for a
\* whole packet.
Repairable(p) ==
  /\ Cardinality({ o \in DOMAIN p : At(p, o) \in Ip }) <= 2
  /\ ~ \E o \in DOMAIN p : At(p, o) = "fragment"

(* After the edit of a field, whatever was wrong in the draft before, every
   checksum of the packet is right again: the six passes reach every header
   of a packet with at most one tunnel, in an order in which no later pass
   spoils what an earlier one has summed up. *)
EditRepairs ==
  [][ EditRawField /\ Repairable(Draft.packet) => Wrong(Draft'.packet, Draft'.values) = {} ]_vars
=============================================================================
