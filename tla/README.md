# A verification project for TRex WebUI

TRex WebUI is a control plane for the Cisco TRex traffic generator: a FastAPI
process (`apps/api`) that talks to a TRex server and its daemon, a React
application (`apps/web`) and deployment tooling (`deploy`). Starting traffic on
real hardware is an irreversible act done over a network, by a process that may
die at any moment, on a server other people use. What the API believes about it
is one JSON document on disk. This project models how the two are kept
together, checks the model with TLC and proves its main results with TLAPS.

## 1. Inventory

| part | state it keeps | operations | how it interacts |
|---|---|---|---|
| traffic runtime (`trex/traffic_runtime.py`, `traffic_operations.py`) | durable session, runs (groups) and one mutation intent; in memory the id of the session it owns | start, update, stop, pause, resume, snapshot (recovers, adopts, reconciles), retire | RPCs through the STL client service, writes through the state store, under the mutation fence |
| hard-stop reaper (`trex/traffic_hard_stop.py` and `reap_expired_hard_stops`) | a polling thread; deadlines are in the session | stop what has expired, superseding a pending mutation | fence with priority, traffic runtime |
| runtime state store (`trex/runtime_state.py`) | the document: connection, capture leases, plan, session, intent | load, update (validate, write, rename, fsync) | every runtime |
| mutation fence, authority (`runtime_mutation.py`, `runtime_authority.py`) | one process-wide lock; the generation of the daemon or of the process | enter, current | wraps every mutation |
| STL client service (`stl_client.py`, `stl_connection.py`) | a cached connection | connect, disconnect (cleans captures up), one method per RPC | TRex server |
| capture runtime (`capture_runtime.py`, `capture_operations.py`) | durable capture leases with a staged preparation | begin, prepare, promote, reconcile, restore service mode, release ports | STL client, state store |
| quick validation (`quick_validation.py`) | its own durable run document | start, status, cancel | drives the traffic runtime from status polls |
| stats sampler (`stats_sampler.py`) | thread, history, bounded queues | subscribe, unsubscribe, sample, close | STL client, event loops of subscribers |
| daemon control (`runtime.py`) | configuration versions, audit log | start, stop, reserve, restore a configuration | TRex daemon over JSON-RPC |
| stream builder (`apps/web`: `TrafficProfilesWorkspace.tsx`, `trafficProfiles/`) | the streams of the open profile, as switches, modes and values | one control per field, shown and enabled by rules of its own; validate and save; open | sends streams to the workbench, gets them back normalised |
| workbench (`workbench_normalize.py`, `workbench_gui_render.py`) | none | normalise a stream, render it as a profile with a field engine | called with every stream that is saved, opened or previewed |
| packet editor and field engine (`rawPacketModel.ts`, `workspaceSelectionModel.ts`, `advancedVm*.ts`, `packetLayoutModel.ts`) | drafts per packet, previews; in the stream: advanced mode, pinned bytes, a field engine program | preview, pin, edit bytes by field with repair of checksums, offer templates for programs, apply, clear | asks the workbench for previews; sends bytes and program with the stream |
| packet builder (`workbench_packet_build.py`, `workbench_transport.py`) | none | build the packet of a stream, or hand its own bytes back | called for every preview and save |
| port, profile, report operations | files | read and write, convert | STL client |
| other views of the web application | a snapshot of the API, what was typed | show, forward commands | API |
| release transaction (`deploy/release_transaction.py`) | journal, two release links, host snapshots | prepare, arm, activate, commit, rollback, reconcile | systemd |
| daemon supervisor (`deploy/trex_daemon_supervisor.py`) | the generation file | publish, reap, shut down | TRex daemon |

Behaviours that are hard here:

- an RPC may fail before, after or in the middle of its effect, on some of its
  ports only, and the process may die between any RPC and the write that
  records it;
- recovery runs inside a *read* (GET of the traffic runtime) and is itself a
  sequence of RPCs and writes that may fail or be cut short;
- the write may fail after it took effect (directory `fsync` after the rename);
- TRex and its daemon restart on their own, finite runs end on their own,
  handlers of dead clients expire on their own, and other controllers use ports
  that nobody holds;
- deadlines pass between a check and the RPC it guards;
- the stream builder states every rule three times: in the panel that shows a
  field, in the patch that follows an edit, and on the server, which drops what
  it does not accept without a word. A setting one of them forgets is sent to
  the wire unseen, or seen and not sent;
- the field engine varies bytes at an offset. The page computes that offset from
  the switches of a stream, or by a walk over pasted bytes; the server builds
  the packet; the editor decodes it by yet another walk, and each knows two
  dozen layers. Nothing at run time compares them.

What makes each part correct: the traffic runtime never loses track of traffic
it started, never repeats an RPC that cannot be repeated, never records what
did not happen and leaves nothing behind of what it gave up; the reaper stops
every leased run soon after its deadline; the capture runtime returns service
mode and ports exactly as it found them; quick validation ends every run with
the verdict its evidence supports; the sampler feeds every subscriber that is
there; the stream builder sends what it shows; the field engine varies the field it
names under a checksum that stays right; the release transaction ends on one consistent release. `PROJECT.json`
lists the hazards one by one, each at the line where it bites.

## 2. Modules

| module | what it is |
|---|---|
| `TrafficRuntime` | the traffic runtime with its store, its fence, its authority and the TRex server around it; the properties |
| `TrafficLedger` | the abstract specification: what the runtime promises of every run |
| `MCTrafficRuntime` | instances for TLC |
| `TrafficRuntimeProofs` | type invariant, what every step keeps of a pending intent, and that the start RPC, and a relative update, take effect once |
| `TrafficSessionProofs` | what operations leave behind: the session under an intent, the session the process owns, the ports, the streams of a start given up; documents that are valid and tell what was done |
| `TrafficLedgerProofs` | traffic is accounted for in the ledger |
| `TrafficRefinementProofs` | the runtime implements the ledger; traffic is on record, closed runs stay closed, leases outlive traffic |
| `TrafficService` | the traffic authority at the grain its users see: one action per operation; extended by `QuickValidation` |
| `QuickValidation` | the guided quick validation, composed with `TrafficService` and with other windows of the operator |
| `StatsSampler` | the stats sampler: its thread, requests beside it, the event loop with the queues |
| `MCStatsSampler` | the symmetry for its instance |
| `StatsSamplerProofs` | its types, its thread, the end of subscriptions, that samples are sent once and the newest arrives |
| `StreamFields` | the stream of the builder: fields that can vary, switches, lengths |
| `StreamPanels` | which controls the editor shows and enables |
| `StreamPatches` | what an edit changes besides its own field |
| `StreamServer` | what the server makes of a stream, and what of it reaches the wire |
| `StreamEditor` | a person at the builder, and the way of a stream through the server and back; the properties |
| `MCStreamEditor` | its instances |
| `StreamEditorProofs` | its types, the shape of tunnels, that the length typed in is kept, that what is sent varies as shown |
| `StreamReloadProofs` | that a saved profile settles: opened again it is accepted, stays the same and varies as shown |
| `PacketSegments` | a packet as layers of so many bytes, and the walks over it that the page has in common |
| `ChecksumRepair` | the six passes that repair the checksums of an edited packet |
| `PacketRows` | the decoded rows of the editor: which field is at which bytes |
| `RawTargets` | the target functions: where a field is in pasted bytes, and which fixup belongs to it |
| `StreamPackets` | the packet the server builds of a stream, and where the page expects its headers |
| `TemplateTargets` | the templates for everything but tunnels: when offered, what they write, with which fixup |
| `TunnelTargets` | the templates for VXLAN, GTP-U, GRE and what is in them |
| `PacketEditor` | a person at the packet editor, with previews that arrive late; the properties |
| `MCPacketEditor` | its instance |
| `QuickValidationProofs` | its types, verdicts final and fail closed, passes earned, evidence own, documents valid, settled runs quiet |

### 2.1 TrafficRuntime: state

| variables | code |
|---|---|
| `run`, `by`, `prog`, `own` | the TRex server: state of each port, which start set it transmitting, the streams on it (named by the start that added them), who holds it |
| `authority` | `RuntimeAuthorityProvider.current()`: the daemon generation under `systemd`, the API process otherwise |
| `session`, `runs`, `intent` | `traffic_session`, its groups and completed groups, `traffic_mutation_intent` of the document |
| `owned` | `_owned_session_id` |
| `task` | the operation that holds `runtime_mutation_fence`: a program counter and the locals it uses later |
| `nonce`, `starts`, `deltas`, `held` | history: numbers drawn, how often a start or a relative update took effect, ports an operator holds or the pending intent puts back |

A mutation's nonce names everything it makes: the run it starts, the streams it
adds and the evidence it leaves. `own` is `free`, `api` (this process), `stale`
(an API process that died) or `other`.

### 2.2 TrafficRuntime: actions

*Begin.* `PrepareStart` and `PrepareMutation` are the handlers up to the moment
the intent is on disk, every guard included. *Execute* is whatever the task does
next: the stage hooks of a start (`AdvanceStage`, `StageFails`), the RPCs
(`Acquire` .. `Release`), control of the ports by a recovery (`Control` ..
`RestoreAcquisition`), the sample afterwards (`Verify`), the writes at the end
(`Promote`, `Retain`, `Clear`, the two retirements, `Reconcile`), and the
branches of `_recover_traffic_mutation_intent`, one action each. *Snapshot*
starts a recovery or a reconciliation. *StopTrex* is the stop route of the
daemon. *Environment* is everything else: crashes, exits, ends of runs, other
clients, the operator, time.

Every RPC may succeed, or fail with its effect on any subset of its ports.
Every write may fail before or after its effect (`DiskFaults`).

### 2.3 Abstractions

- The clock is a ladder per lease: `armed` (the RPC budget fits), `near` (it may
  or may not), `due`. Every step may find the lease further down.
- Authority and port states are sampled together. A TRex exit need not change
  the generation, so the snapshot that reads an old generation and new port
  states is still there.
- TRex accepts a start of a stopped port, a stop of any port, a pause or a new
  rate of a running one and a resume of a paused one. A TRex exit during an
  operation cuts the cached connection for the rest of it.
- A replay refused because the profile file changed is a choice of
  `AbandonStart`.
- The intent's own copy of the session (`session_before`), which the document
  validator compares with the session, is not a field: `SessionFrozen` says that
  the comparison never fails.
- The "nothing changed" early return of a reconciliation is taken as a write of
  the same state. A snapshot always reaches the sample: with a lease near its
  end a GET answers from disk only, but the reaper takes the same path.
- Left out: sessions older than the evidence format, editing the plan, capture
  leases (a start is refused while some are of another generation), changes of
  the connection target and a disconnect on its own, superseding hard stops,
  the refusal to pause a run of finite duration.

### 2.4 TrafficLedger

A run is `new`, `pending`, `live`, then `over` for good; TRex is told at most
once to start it; it is over only when no port transmits for it. The refinement
mapping (`Phase`, end of `TrafficRuntime`) reads a pending start intent as
`pending` and a group that is not closed as `live`.

### 2.5 TrafficService

What a user of the traffic runtime sees between two of its requests: every
operation holds `runtime_mutation_fence` from its first check to its last write,
so an operation of *another* client is one action here, and only the quick
validation's own start and stop may end in the middle and leave an intent.

| variables | code |
|---|---|
| `live` | TRex: which start transmits on the ports of each of two saved groups, `guided` and `other`; `Foreign` for another controller |
| `rec` | group records of the session: when the run started, its lease, state, and the cleanup evidence of its end |
| `sess`, `wal` | `traffic_session`, `traffic_mutation_intent` |
| `nonce`, `reaped` | the last run id drawn; history: what the reaper stopped |
| `now`, `faults` | the clock, the budget of faults |

`Sampled` is a snapshot with live evidence: the recovery of a pending intent
(`RollsStartBack`, `RecoversStart`, `RecoversStop`, or `LeavesIntent`) and then
the reconciliation. `RecoveryFails` is one that an RPC or a write cuts short.
`Reap` is the hard-stop reaper, over a lease, over a pending stop and over a
start intent. The ports of a group act as one, which is why a stop of some of
them by another client only shows in `exact`: whether the operation that ended
the run named the ports of its group and no others.

### 2.6 QuickValidation

| variables | code |
|---|---|
| `doc` | the run of the state document, as persisted |
| `op` | the request under way: where it is, what its snapshot said, what `_enter_stopping` was called with |
| `process` | `process_instance_id`; the document keeps the one that started the run |
| `launched` | history: the traffic run that each guided run tried to start |

A request (`StartRun`, `Poll`, `Mark`, `MarkOnly`, `Cancel`) takes the lock;
`Execute` is the rest of its handler, one action from each write, RPC or
snapshot to the next. `Mark` and `MarkOnly` are `_mark_restart_recovery`, which
every handler calls first. `Save` is a write, which may fail on either side of
its effect. While a request runs nobody else uses the traffic authority, but
TRex may exit, another controller may take idle ports, time passes and the
process may die.

Abstractions. Revisions are not fields: a handler writes under the lock, so its
revision is stale only after its own write failed past its effect, and then the
request ends (`Save`). A packet sample is its time and what it says (`clean`,
`lossy`, `missing`). Failure codes and details are left out, so an update of
the detail alone writes the same state. The evidence comparisons that always
hold of a record written by the runtime (the fields `_validated_started_session`
compares with the plan) are left out; identity, times, lease, state and cleanup
are compared. Time is a counter, and `StartRun` waits until the clock is past
every earlier start, as it always is in the code, whose timestamps have
microseconds. Sessions of unknown state are left out.

### 2.7 StatsSampler

| variables | code |
|---|---|
| `closed`, `stop`, `thread`, `subs`, `sequence`, `latest` | the fields of `TrexStatsSampler`, which `_state_lock` protects |
| `pc` | where each sampling thread is; `job`: per recording thread, the sample it still publishes and to whom |
| `leaving` | subscriptions that `close` took out of the table and closes one by one afterwards |
| `shut`, `events`, `ready` | the closed flag of a subscription, its queue, and what other threads asked the event loop to do with it |
| `consumer`, `got` | its event stream, and what the stream was sent until it ended |

One action is one critical section of a thread or one turn of the event loop.
Unsubscribing is one action because the stream and its handler call it on the
loop, where nothing else of that subscription can run in between; `close` runs
on a request thread and is several. Calls wait per subscription, since those of
different subscriptions do not affect each other. Requests record without
`_sample_lock`, as `GET /api/trex/stats` does; those that take it do less.
Left out: the history that reports read, and a `stats` call that raises (it
returns failures as results). The loop may close under a running thread.

### 2.8 Stream builder

`stream` is one stream of the profile: its layers (`l3`, `l4`, the inner version
of each tunnel), its frame length, the set `on` of its switches and the set
`vary` of the fields that change from packet to packet. A field carries its name
in the source. `StreamFields` declares them by the family of actions that
changes them.

One action is one control: `Edit(panel, actions, controls, Patch)` takes an
action of the family whose field the panel shows and enables (`StreamPanels`,
one operator per fieldset of `TrafficProfilesWorkspace.tsx`) and applies the
patch of `streamPatchModel.ts` (`StreamPatches`), then what `handleStreamChange`
does to the packet bytes. `ProtocolEdit`, `VlanSelect`, `MplsSelect` and
`PayloadSelect` are the selectors of whole layers. `SaveAndOpen` is the save
with its validation on the page, and the stream that comes back from
`normalize_workbench_streams` (`Normalise`). `Applied` is the part of `vary` for
which `_workbench_vm_body` writes instructions; `Seen` is the part for which a
panel shows a mode.

Abstractions. The values of fields are left out, except the few that a rule
reads (the ICMP type, the GRE protocol type, a checksum of zeros, DHCP options
that are not zero); a mode is fixed or not. Text that does not parse is refused
by the control and changes nothing. Imported packet bytes are a switch. Streams
of one profile do not affect each other, so there is one.

### 2.9 Packet editor and field engine

A packet maps offsets to the layers that start there, each with a kind, a length
and the flags a walk tells apart (an IPv4 header that says it is a fragment, an ICMPv6 message
that is a router advertisement). Packets are also what the server builds,
`BuiltPacket`. A content adds the values of the words that checksums are about:
the addresses of an IP header, the checksum of a layer, and one value for the
rest of it; a checksum makes the sum of what it covers zero modulo `M`.

| variables | code |
|---|---|
| `stream` | the switches of the stream that decide its layout |
| `advanced`, `bytes`, `vm` | `advanced_mode`, `packet_binary_base64`, `advanced_vm` of it |
| `preview`, `rendering`, `busy` | `profilePacketPreviews`, the requests for them under way with what they were made from, `isProfileWorkbenchBusy` |
| `drafts` | `drafts` of the editor's state, by `streamEditorContextKey` |
| `edits` | history: how many edits were made, for the bound |

One action is one control (`EditStream` for all panels of section 2.8, which
clear the bytes; the others in `PacketEditor` by the names of the source), or
the answer to a preview, in any order and late. `applyRawPacketFieldEdit` is an
edit of a word and the six passes of `repairRawPacketChecksums` after it, in
their order and with the headers each of them finds.

A template is a set of writes: the row it is named for, the first byte and the
number of bytes it writes, and the fixup behind it with the header lengths and
the transport it gives TRex. `Writes(c)` is all templates that are offered for a
candidate: the stream by its switches, or a draft read as bytes.
`Either(Raw(..), ..)` reads as in the code: the target found in the bytes, and
failing that the offset computed from the switches.

Abstractions. The values a program runs through, and the text of programs, are
left out: a program is there or not. Where the number of bytes depends on a
value (suffixes of addresses), every number the code can choose is written.
Sums are taken over words that stand for whole layers; a carry or the padding of
an odd length is not seen. The ICMPv4 templates that count a checksum against their field are offered for
every echo message, whatever its values; the template of the packet length is
left out.

## 3. Runs

| run | bounds | question |
|---|---|---|
| `recovery` | 1 port, 3 mutations of every kind, 2 generations, writes that fail, fairness | does any path of crash and recovery repeat, lose or leave something; does every operation end |
| `external_groups` | 2 ports, 3 mutations, targets that overlap in every way, the process is the authority and may die once, at any step, to come back as a new one, writes that fail after their effect | do sessions of several groups stay consistent; does the runtime implement the ledger |
| `shared_server` | 2 ports, one of them shared with others, an operator who holds ports | is the traffic on record, are ports given back |
| `foreign_adoption` | 1 port, 1 start, other controllers | expected violation, see 5 |
| `guided_run` | 2 guided runs, 2 starts, clock to 6, 2 faults of disk, RPC or crash, others stop traffic | is the document always valid, is a verdict final, fail-closed, quiet and about the run's own traffic |
| `guided_shared` | 2 guided runs, 2 starts, clock to 5, 1 crash, TRex exit or other controller, others start and stop traffic | is a pass earned |
| `guided_liveness` | 1 guided run, clock to 5, 2 faults, fairness | with these faults, no TRex exit and no other window: does every run end, does its traffic end without anybody polling |
| `stats_sampler` | 2 subscriptions, a request thread, 3 samples, queues of 2 | is everyone who is there fed, once and with the newest, and does a closed stream end |
| `watchdog_pass` | 1 guided run, no fault | expected violation, see 5 |
| `stream_editor` | 36 fields, 2 lengths, 16 combinations of panels, edited any number of times | is what the page shows what the server sends, and does a saved profile come back as it was |
| `packet_editor` | 51 streams, 15 pasted packets, 2 edits where packets are pasted and 1 elsewhere, 1 packet with a draft, 2 previews at a time on one stream and 1 elsewhere, sums modulo 5 | do templates write where they say, with the right fixup; does an edit leave checksums right; do mode, bytes and program agree |
| `gre_version` | the GRE panel | expected violation, see 5 |

Why the bounds are enough. An operation concerns one intent, one session and
the ports of its target; ports interact only through a target that spans some of
them, or through a group that shares them, for which two ports suffice: one in
the target and one out of it, both in it, one done and one not. Three nonces
let a session hold two runs and an intent, or a run be replaced and stopped;
two let a start be followed by any one mutation, or a session by another.
Crashes and recoveries are not bounded under `systemd`: an intent may be
recovered any number of times. `MaxAuthority` bounds only the changes of
authority, and the code compares authorities for equality only; where the
process is the authority a crash is such a change, and `external_groups` has
one of them: two processes, the second of which finds the session, runs and
intent of the first under an authority that is not its own. It recovers no such
intent, adopts no such session, and of its runs settles only what it sees
stopped.

For the quick validation: a verdict depends on one document, one session and one
intent; a second guided run shows what is left of the first, and the second
start is either that run's or another window's. The clock reaches the watchdog of
a run started at 1 and passes it (`Preflight` refuses a run whose watchdog lies
beyond `MaxTime`); times are compared only with the start, the deadline and the
watchdog of one run, so a window of 1 or 2 and a margin of 2 order them in every
way the code can. Two faults let a recovery fail after a failure. `EvidenceIsOwn`
is checked where nobody else starts traffic, `RunsEnd` where TRex does not exit:
section 5 says what happens otherwise.

For the stream builder: rules are stated for families of fields, and `MCVaried`
has one or two fields of every family, so that every rule is at work. A rule
looks at a length only to compare it with a minimum; of the two lengths, one is
below most minimums and one above all but that of DHCP. A person uses the panels
of one combination of `MCFocuses`, in any order and for any number of edits; a
combination holds panels whose patches touch each other's fields, and together
they hold every panel.

For the packet editor: layouts are enumerated, not counted up to: every layer
the builder can put into a packet is in one of the streams, those that move
others (tags, labels, TCP and DHCP options, GRE and GTP-U words) in several
combinations, and what no stream is built as (IP options, extension headers,
tags inside a tunnel, trailing bytes) in a pasted packet. Pasted packets have
every checksum wrong; two edits show that the second does not undo what the
first repaired. With one late preview the answer of a stream that was edited
meanwhile arrives; with two they come in the wrong order.
Three premises are stated in the properties, each because the code does
otherwise (section 5): a draft whose inherited switches name what it does not
have is left to `SwitchesMatch`; fixups behind IPv6 extension headers and
repairs in packets with a tunnel in a tunnel or an IPv6 fragment are not
claimed.

For the sampler: two subscriptions let one come as the other leaves; three
samples overflow a queue of two, and one request thread puts them out of order.
A late sample may push out the newest only if as many are late as the queue is
long: with the limit of 32 in the code, and 2 here, one thread cannot do it.
Subscriptions are interchangeable (`SYMMETRY`; the properties are safety
properties).

Fairness. `FairSpec` asks that an operation under way takes its next step
(`WF_vars(Execute)`): the handler is a thread of the server that holds the lock,
each RPC has a timeout, and a write returns or raises. Nothing is asked of the
environment and nothing of new requests. A crash also ends an operation, so
`OperationsEnd` is about those that do not crash, and must hold for each
without its help. In `QuickValidation` the same holds of a request; the reaper
is strongly fair, because its thread competes for the lock, with priority,
between any two requests; and the clock runs. That somebody polls is *not*
assumed: it is the premise of `RunsEnd`, and `TrafficEnds` holds without it,
which is the point of the watchdog lease.

Every property has a mutant: a definition changed the way a bug would, under
which TLC must find the property violated (`PROJECT.json`, "mutants"; the mutant
stands before the definition it replaces).

## 4. Proofs

All for any set of ports, any bounds, any set of requests.

- `TypeCorrect`: `Spec => []TypeOK`. The type invariant is not inductive by
  itself: the steps of an operation index the histories by the intent's nonce.
  It is strengthened with `OperationPending` (outside the steps that end an
  operation, an intent is on disk).
- `StartsAtMostOnce`: `Spec => []AtMostOnceStart`. The inductive invariant says
  how far a start that has not been sent can be: until the stage `start_intent`
  is on disk the RPC was not sent (`Unsent`), the program counter past that
  stage means it is on disk, and a recovery goes back to the hooks only for an
  intent that has not reached it. `RecoverStart` is the heart: of all branches
  only `ReplayStart` returns to the hooks, and its guard is that stage.
- `UpdatesOnce`: `Spec => []RelativeUpdateOnce`. No stage records that an update
  was sent, so the argument is another one: before the RPC (`BeforeCommand`) a
  relative intent was not applied (`UpdateInv`), and nothing goes back there for
  it. `RecoverUpdate` refuses a relative one, `RetryAction` never sees one
  (`relative => op = "update"`), and `AdvanceStage` gets to `acquire` only for a
  start, which is where the proof needs `StartInv`.
- `SessionIsFrozen`: `Spec => SessionFrozen`, from `ReconcilesClean` (a
  reconciliation that follows a recovery finds no intent) and a case for every
  other step.
- `OwnedCurrent`: `Spec => []OwnedIsCurrent`, assuming that no write fails after
  its effect. Without the assumption it is false: after such a failure
  `_owned_session_id` names the replaced session, and until the next restart
  the new session is not adopted.
- `PortsReturned`: `Spec => []NoPortLeak`, from `PortsInv`: what the API holds
  beyond the ports the operator acquired is, during a mutation, what that mutation
  took (`took`), and during a recovery a port of the intent; it holds nothing more
  wherever an operation has not acquired yet or has restored (`Unheld`). It needs
  `TaskAuthority` below: an operation whose TRex process is gone acquires nothing
  on the next one.
- `GivenUpStartsLeaveNothing`: `Spec => []NothingLeftBehind`, from `ProgInv`. A
  rollback puts back the streams its intent recorded, so the point is that the
  intent never recorded its own: `acquired`, where they are sampled, comes before
  `profile_add_intent`, where they can be added for the first time. And a
  recovery that finds another TRex process clears a start without an RPC, which is
  right because the streams were lost with the process.
- `RunsAreStarted` and `PromotionsAccepted`: `Spec => []RunsWereStarted` and
  `Spec => []PromotionAccepted`, assuming no other controller on the same TRex.
  Two invariants carry them. `DocumentInv` holds in any case: it is what the
  validator asks of a document, with the evidence each run names (a stop that
  closed it, a start that opened it). `StartedInv` is where the assumption goes:
  all that transmits was started by the API (`SoleController`), so what the sample
  of a recovery shows transmitting was sent by the pending start or belongs to a
  run that is not stopped (`Accounted`), and wherever an operation goes on as
  though its RPC took effect, it did (`Effective`). With other controllers both
  are false, for the same reason (section 5, `foreign_adoption`).
- `TrafficAccounted`: the ledger implies that a port transmits for a run only
  while the run is pending or live. With `RuntimeKeepsLedger` it holds of the
  runtime.

Four results rest on one inductive invariant, `Ledgered` of
`TrafficRefinementProofs`. It holds with and without other controllers on the
same TRex, for both supervisors, and whichever writes fail. Its parts are what
the code relies on without saying so:

- `TaskFits`: which goal, mode and ports an operation can have at each of its
  steps. It is what the call structure of `_recover_pending_intent` guarantees:
  only a start is rolled back or normalized, and only a rollback clears one.
- `GroupsDrawn`, `GroupsClosed`: the number of a pending intent is not that of a
  group yet; a group is closed exactly when it is recorded as stopped, and has
  no lease then.
- `TrafficLive`, `TrafficRecorded`: traffic of the API is on a port that TRex
  reports as not stopped, and belongs to a group that is not recorded as stopped
  on that port, or to the pending start.
- `SampleHolds`: a port that the sample of a recovery found stopped carries no
  traffic of the API, for as long as the recovery has not replayed a start
  (`Fresh`). Other controllers may change the ports after the sample; they
  cannot make traffic the API's.
- `TaskAuthority`, `TrafficAuthority`: an operation that still has its
  connection talks to the TRex process its intent was written for, and traffic
  of the API runs in the process its document names. Without it a session could be
  retired, or an intent of a past generation cleared, under traffic.
- `EndsQuiet`: when a retirement, the clearing of a start or the promotion of a
  stop is next, the traffic it writes off is gone. For a stop this goes back to
  the RPC, and is why it is stated of the release of the ports as well.

The results:

- `TrafficIsRecorded`: `Spec => []NoOrphanTraffic`.
- `RuntimeKeepsLedger`: `Spec => LedgerKept`, the refinement. The steps on TRex
  are the ledger's `Send` and `Quiet` (`ServerSteps`), the documents that are
  written are its `Draw`, `Promote` and `End` (`LedgerWrites`, `LedgerEnd`), and
  everything else stutters.
- `ClosedRunsStay`: `Spec => ClosedRunsTerminal`.
- `LeasesOutlive`: `Spec => LeaseOutlivesTraffic`.

Of the quick validation, for any number of runs and starts, any window and
margin, any budget and kinds of faults (`QuickValidationProofs`):

- `DocumentTyped`: `Spec => []TypeOK`. Not inductive by itself: the steps of a
  request use what earlier steps of it established. `RequestInv` says it (a
  request past its first step is about a run that is not settled and in the
  phase that step belongs to; one about to settle a run has its cleanup evidence
  in hand), and `PendingInv` that a run has a pending verdict exactly while it
  is stopping. `Candidate`, the first record that matches, exists because the
  run ids are well-founded (`LessWellFounded`).
- `RunsSettleOnce`: `Spec => SettledOnce`. Of all actions only `Preflight`
  writes over a settled run (`Writers`).
- `RunsFailClosed`: `Spec => FailClosed`. No write makes a verdict, or a pending
  verdict, better (`NoPassWritten`); the crux is that `Verdicted` passes only
  what is pending as a pass, and that a run waiting for recovery or of a past
  process never is, after the mark that precedes every other step.

- `PassesAreEarned`, `SettledStaysQuiet` and `DocumentStaysValid`:
  `Spec => []PassIsEarned`, `[]SettledIsQuiet`, `[]DocumentValid`. All three rest
  on `EvidenceInv`, whose parts need each other. `RecordInv`: a run opens once,
  under a number that was drawn, never before the document that asks for it, and
  the run of a pending start is not open yet. `StepInv`: what a request found
  out and still relies on, which is what another window could have changed in
  between if the lock did not hold it off; the heart is that idle ports seen by
  a request with no intent pending stay silent until it acts on them. `OwnInv`:
  a run that may still pass is bound to what it started, and its deadline lies
  before its watchdog. `EarnedInv`: a pass has its evidence. `NumbersInv`: the
  times and names of the document fit its phase. The steps are split twice: what
  an action does to the traffic (`TrafficSteps`: of all actions only a start, a
  client's start and a recovery open a run) and what it writes (`DocumentSteps`),
  so that each invariant is kept case by case of those and not of thirty actions.
- `EvidenceStaysOwn`: `Spec => []EvidenceIsOwn` where no other window starts
  traffic, from `AloneInv`: whatever else the session holds is older than the
  run, so that the first record which matches (`Candidate`) can only be its own
  (`BoundOwn`), and is it if it exists (`OwnValidated`). With other windows it is
  false (section 5).

Of the sampler, for any numbers and limits (`StatsSamplerProofs`): `SamplerTyped`,
`SamplerRuns` (`OneSampler` is inductive together with the types and with the
fact that a closed sampler has no subscribers, without which the finally clause
would have to start a thread again), `ClosedIsWoken` (the call that wakes a
stream stays queued behind whatever is added, `AppendKeeps`, and when what is
before it is run, `TailKeeps`), `ClosedStaysSilent`, and two about the samples:

- `SamplesSentOnce`: `Spec => SentOnce`, from `OnceInv`: on its way to a
  subscription a sample is in one place, with a recording thread, among the calls
  of the loop, in the queue or sent, and a subscription that is still to come is
  in no thread's hands. The latest sample, which `subscribe` queues, can be
  nowhere else for that reason.
- `NewestReaches`: `Spec => []NewestArrives`, if there are fewer request threads
  than a queue has places. Late samples are older and may push the newest out of
  a full queue; `NewestInv` counts what can still come behind it, the calls that
  wait and the threads that have a sample for the subscription (`Late`), and
  `FewLate` bounds those by the request threads and one sampler thread, which is
  where `OneSampler` is needed. The queue of the code has 32 places, so it takes
  32 requests that all stand between recording and publishing to break it; with
  as many as places it is false, as TLC shows at once for one place.

Of the stream builder, for any panels in use and any lengths typed in
(`StreamEditorProofs`), all from `Fit`: the stream is well typed and layered, a
tunnel is one tunnel between ports that do not vary, no length is below 64 bytes,
and a frame of varying length has the longest of its lengths and headers that
allow it (`StreamFit`). Edits that keep to the protocols of the stream are `Calm`:
they bring in no tunnel, no varying port and no varying length, and calm steps
compose (`CalmFit`, `CalmChain`), which takes care of most patches and of all the
stages of the server but the first. The others are choices of a protocol
(`PacketTypePatch`, `TunnelChoice`), lengths, and ports, whose panel is locked
under a tunnel.

- `StreamTypes`: `Spec => []TypeOK`. The types need `Fit` because of the layering:
  the choice of an IP version brings its transport with it, and the server, which
  turns a tunnel into IPv4 and UDP, must not meet one over ARP.
- `OneTunnelAtATime`: `Spec => []TunnelShape`. That the frame of a tunnel is fixed
  is inductive only with what `Fit` says of any frame of varying length.
- `TypedLengthKept`: `Spec => []LengthKept`. The server raises the length to its
  own minimum in six places, each on a stream it has changed before. `Snug` says
  of such a stream that no header has become longer than it was when the page
  accepted it: every stage of the normalisation keeps it (`SnugStages`), and what
  is snug needs no raise (`LighterWire`), by the page's own minimum for each kind of
  packet.
- `FieldsSentAsSeen`: `Spec => []SentAsSeen`. `Fit` is not enough: a stream on
  which a UDP field varies under a tunnel, or the inner IPv6 address of a GRE
  header that carries IPv4, is fit, and the server would send what no panel shows.
  `Tidy` says that no edit leaves such a field behind, nor two messages in one
  payload (`StreamTidy`: `Spec => [](Inv /\ Tidy(stream))`). From there the argument
  has three parts. Every stage of the server `Carries` the stream on
  (`NormaliseCarries`): a field it fixes is `Free`, that is, it does not vary, or is
  not sent, or another choice overrules it, and the switches that decide what is
  sent are `Held`. A field that varies before and after is then sent of both or of
  neither (`CarriesFields`). And what the panels show varying is what would be sent,
  layer by layer (`LinkShown`, `NetworkShown`, `TunnelShown`, `TransportShown`,
  together `ShownIsSent`).
- `ReloadsSettle` (`StreamReloadProofs`): `Spec => []ReloadSettles`, what is saved is accepted when it is
  opened again, is the same when it is saved once more, and is sent as its panels
  show it, with nothing overruled any more. What a stage of the server leaves has
  a form of its own, on which the stage changes nothing (`Settled`, one conjunct
  for each; `SettledSame`). The later stages keep that form, because they write
  none of the switches it depends on (`After`, with the switches of each stage and
  `SwitchesApart`), only take varying fields away and only raise lengths, which
  leaves room where there was room (`RoomyAfter`). That is `NormaliseSettles`; the
  page accepts what is settled (`SavedAccepted`), since the server's minimum for a
  packet is never below the page's. One fact about the edits is needed besides
  `Tidy`, that imported bytes are plain UDP (`Imported`): their lengths are rewritten
  first, and a stage that raised them later would undo it. It is inductive because
  only a mode of the ports keeps the bytes (`EditsInvalidate`). A varying frame
  around a message is left out, as in `ReloadSettles`: there the server does raise
  the length after the lengths were settled, and the page may refuse what comes back.

Nothing is proved of the packet editor: its walks over layers are recursive
operators, which the prover does not accept, and the layouts are a finite table
that `packet_editor` goes through.

Only model-checked: the invariants of the packet editor, and what lies out of the
prover's reach, liveness under fairness (`OperationsEnd`, `RunsEnd`, `TrafficEnds`).

## 5. Disagreements with the documentation

`foreign_adoption` violates `RunsWereStarted`. A start is at stage
`start_intent` on disk, and its RPC was never sent (a crash). Another
controller takes the free port and transmits. The snapshot samples the port
`running`, which is what the start wanted; the other controller releases the
port before the recovery proves control of it; the start is then promoted as
`recovered` though TRex never started it. `docs/DEVELOPMENT.md:311` promises
recovery "only from exact nonce and live baseline evidence"; nothing in the
sample carries the nonce. The window is short, and none of the other runs with
other controllers depends on it. The same window breaks
`PromotionAccepted`: a `resume` of a group that has ended, beside one that
transmits, is on disk and was not sent; the traffic of the other controller looks
like its effect; the document its promotion writes says of a group that it is done
and running, which the validator refuses, and the intent stays.

`watchdog_pass` violates `WatchdogNeverPasses`. `docs/DEVELOPMENT.md:139` says
of the hard-stop lease that "if it fires [...] the guided result is
fail-closed". When it fires and no intent is pending, the reaper stops the
traffic by an ordinary `self.action("stop")` (`traffic_runtime.py:673`), whose
`completion_mode` is `direct`; the cleanup evidence then says `operator_stop`,
which `_finish` cannot tell from its own stop: its test for `hard_stop`
(`quick_validation.py:2283`) never sees this case. Only a stop that supersedes a
pending mutation leaves `hard_stop`. So a run whose browser went away after its
start, was stopped by the watchdog, and is polled again later passes if its last
sample is clean. Its traffic did transmit for the whole window and was stopped by
a command, so `PassIsEarned` still holds.

Worth knowing besides: an intent whose write was reported as failed may be on
disk and be replayed by a later read, and the operator may release ports a
pending intent will take again and put back.

`POST /api/trex/disconnect` closes the stats sampler before the outcome of the
disconnect is known (`dependencies.py:229`), where `docs/DEVELOPMENT.md:250` says
that "only complete cleanup clears the stats sampler"; streams end and must be
opened again although the client stays connected. `StatsSampler.start` is not
called by anything.

Of the quick validation: after a crash between the start of its traffic and the
write that names it, the run is attributed by group, time and lease. If another
window has replaced the session by then, the run is settled `not_started`
although its traffic ran (`quick_validation.py:1141`), or a run of that window
which has stopped may be taken for its own; such a run cannot pass, because of
the restart. A run whose traffic was seen to stop by itself, or whose session
was replaced after it was named, has no commanded stop to certify and stays in
`stopping` until an operator intervenes; the repository's tests ask for that.

`gre_version` violates `GreInnerSent`. The packet of a GRE stream has the inner
version that `gre_inner_l3` *or* a protocol type of 86DD asks for
(`workbench_protocol.py`), the editor shows the inner fields by `gre_inner_l3`
alone. With the protocol type typed in and the inner version left at IPv4, the
page shows inner IPv4 addresses that vary and accepts the stream; the server
drops them and sends an IPv6 packet whose addresses do not vary
(`PROJECT.json` quotes the documentation).

Of the stream builder besides: the length of a DNS or DHCP message is checked by
the server only, which raises the frame without a word; if the frame was to vary
in length, the profile that comes back may be one that the page refuses to save
again (the premises of `LengthKept` and `ReloadSettles` leave exactly this out).
The hop limit of an ICMPv6 control message and the UDP length of a DNS or DHCP
message are overruled silently (`Overruled`). A stream with DNS on that gets a
tunnel is refused by the page while the checkbox that would turn DNS off is
disabled.

Of the packet editor and the field engine, all of it behaviour of the model,
none of it against anything the repository says:

- Applying a draft keeps the program that was made for the packet before
  (`workspaceSelectionModel.ts:986`), and a program written while a draft is
  open is applied to the pinned bytes, not to the draft its templates were
  offered for.
- A preview asked for before an edit may arrive after it (`App.tsx:4471`; tabs
  ask for previews while another request is under way, and the first answer
  takes the busy flag away). Switching to advanced mode then pins the packet of
  the stream before.
- Clearing the bytes stores the preview as draft under the key of the packet
  that is given up, and a packet that is applied, replaced and applied again
  shows the draft of its first life.
- Templates for a draft go by the switches of the stream where the bytes do not
  decide: with a VLAN tag, a label, a TCP option or a GRE word switched on that
  the draft does not have, a template is offered at an offset nothing is at.
  The same holds of SCTP bytes whose first chunk carries no data.
- A fixup says that an IPv6 header has 40 bytes, also with extension headers.
  Writes of IPv6 addresses by the switches of a stream have no fixup.
- The repair reaches two levels of IP: a tunnel in a tunnel keeps a wrong
  innermost header checksum, and the checksum of a GRE header around another
  one, or over three transports, is summed up too early. In a fragment of IPv6 a
  transport checksum is written although the packet is not whole. Editing a
  checksum itself has no effect: the repair writes over it.

In the other views: opening the reports or the capture dialog again while it is
open leaves its loading flag on (`App.tsx:5370`, `App.tsx:5526`); edits made
while a profile is being saved or loaded are overwritten by the answer
(`App.tsx:4080`); and as stream names need not be unique while the server
encodes the next stream by name (`workbench_render.py:12`), a save may change
what a stream goes to.

## 6. Not modelled

- *Capture runtime.* Its staged preparation is a write-ahead protocol as large as
  that of traffic. It meets the traffic runtime in one place, a start being
  refused while ports are leased, which is not an interleaving: both take the
  fence.
- *Reaper, step by step.* Its stops are stops of the traffic runtime. That the
  forced stop of one lease waits behind an operation on another is a matter of
  seconds, of which the models have no measure.
- *Connection target and disconnect.* They belong with the capture runtime,
  whose leases a disconnect cleans up.
- *Daemon control.* Its hard part, telling a late success from another start, is
  a poll against a timeout; the stop is `StopTrex`.
- *Release transaction, supervisor, archive tooling.* Their steps are operations
  on files and systemd units outside the program; a model would be one of
  those.
- *Run reports, capture files, other views.* Functions of one snapshot.
- *Values in the packet editor.* See the abstractions of section 2.9.
- *Values.* Packet bytes, addresses and counters are abstracted to what a rule
  compares.
